---- MODULE Spec2Model ----
(***************************************************************************)
(* rusty-archive: one run of `update` or `verify` (src/src/main.rs).       *)
(*                                                                         *)
(* The run loads the lexically-last .state file of the state directory,    *)
(* walks the candidate files in name order, classifies each one (spawning  *)
(* a hash task on the worker pool where the content has to be read),       *)
(* joins the pool, collects and sorts the outcomes, and then either        *)
(* dedups and writes a new snapshot (update) or evaluates one of the four  *)
(* verify rules (verify).                                                  *)
(*                                                                         *)
(* Paths are 1..NumPaths, ordered as the walker orders file names.         *)
(* File contents are 1..NumContents; a content has a digest and a length.  *)
(* Times are ticks, SubSec ticks to the second; a snapshot line keeps      *)
(* whole seconds of fully_read and last_seen. Every SystemTime::now() is a *)
(* reading of the wall clock of its own; the clock can be set back, so a   *)
(* reading can be earlier than the one before it. The walk and a hash task *)
(* are sequences of steps, one for each access to the file system, the     *)
(* clock, the counters, the pool and the channel.                          *)
(***************************************************************************)
EXTENDS Integers, Sequences, FiniteSets, TLC

\* ---------------------------------------------------------------- bounds
NumPaths    == 2
NumContents == 3
NumMtimes   == 2
MaxThreads  == 2
SubSec      == 2

Paths    == 1..NumPaths
Contents == 1..NumContents
Mtimes   == 1..NumMtimes

\* the SHA-256 digest of a content (injective) and its length in bytes:
\* contents 2k-1 and 2k have the same length
Sha256(c) == c
LenOf(c)  == (c + 1) \div 2
Digests   == {Sha256(c) : c \in Contents}

\* the bytes of a content: LenOf(c) bytes of value c
Bytes(c) == [i \in 1..LenOf(c) |-> c]

\* file_check.rs:89, hasher.finalize(): the digest of the bytes the hasher
\* was fed. Bytes that are those of a content give the digest of the content;
\* any other byte string (parts of two contents) gives a digest of its own.
finalize(hasher) ==
  IF \E c \in Contents : Bytes(c) = hasher
  THEN Sha256(CHOOSE c \in Contents : Bytes(c) = hasher)
  ELSE LET RECURSIVE Code(_)
           Code(bytes) == IF bytes = <<>> THEN 0
                          ELSE Head(bytes) + (NumContents + 1) * Code(Tail(bytes))
       IN NumContents + 1 + Code(hasher)

\* the second in which the loaded snapshot was written
PrevSecs == 1

\* the readings of the clock are ClockSpan + 1 consecutive ticks
ClockSpan == 1

\* the offsets of the system time zone from UTC, in seconds: 0 and MaxUtcOffset
MaxUtcOffset == 1

\* how often another process writes to the tree while a run lasts, at most
MaxWrites == 1

\* u64 is U64Bits wide; a modification time is a number of nanoseconds
U64Bits == 10
U64Max  == 2 ^ U64Bits - 1

\* ------------------------------------------------------------ data types
NoFile == [exists |-> FALSE]
DiskFile(c, m) == [exists |-> TRUE, content |-> c, mtime |-> m]
DiskFiles == {NoFile} \cup {DiskFile(c, m) : c \in Contents, m \in Mtimes}

\* the files of the tree the loaded snapshot was taken of: the first and the
\* last content, with the first mtime (the tree of the run has files of
\* every content and mtime)
SnapshotFiles == {NoFile, DiskFile(1, 1), DiskFile(NumContents, 1)}

FileInfo(p, d, m, l, ls, fr) ==
  [rel_path |-> p, sha256_digest |-> d, mtime |-> m, len |-> l,
   last_seen |-> ls, fully_read |-> fr]

New(fi)         == [tag |-> "New", fi |-> fi]
Unmodifed(fi)   == [tag |-> "Unmodifed", fi |-> fi]
Missing(fi)     == [tag |-> "Missing", fi |-> fi]
Modified(pr, c) == [tag |-> "Modified", previous |-> pr, current |-> c]

ToCheckNew(p)           == [kind |-> "New", path |-> p]
ToCheckNeedsChecking(f) == [kind |-> "NeedsChecking", fi |-> f]

\* a Result sent on the channel
Ok(v)  == [ok |-> TRUE, val |-> v]
Err(e) == [ok |-> FALSE, err |-> e]

\* what main returns
Running    == [status |-> "running", err |-> <<>>]
Success    == [status |-> "ok", err |-> <<>>]
Failure(e) == [status |-> "err", err |-> e]
\* the process aborted (a panic)
Panicked(e) == [status |-> "panic", err |-> e]

Stats0 ==
  [bytes_read |-> 0, files_checked |-> 0, files_read |-> 0, files_new |-> 0,
   files_modified |-> 0, files_not_found |-> 0, files_duplicate_removed |-> 0,
   files_unchanged |-> 0, files_unchanged_size |-> 0]

\* ----------------------------------------------------------- sequences
RECURSIVE SeqOfSet(_)
SeqOfSet(S) ==
  IF S = {} THEN <<>>
  ELSE LET m == CHOOSE x \in S : \A y \in S : x <= y
       IN <<m>> \o SeqOfSet(S \ {m})

Perms(S) == {f \in [1..Cardinality(S) -> S] : \A x \in S : \E i \in DOMAIN f : f[i] = x}

RECURSIVE FilterMap(_, _)
\* s.into_iter().filter_map(f): f(x) is a sequence of length 0 (None) or 1 (Some)
FilterMap(f(_), s) ==
  IF s = <<>> THEN <<>> ELSE f(Head(s)) \o FilterMap(f, Tail(s))

\* ------------------------------------------------------- snapshot codec
\* FileInfo::write: one line; fully_read and last_seen as whole seconds
write(fi) ==
  [sha256_hexdigest |-> fi.sha256_digest, rel_path |-> fi.rel_path,
   mtime |-> fi.mtime, size |-> fi.len,
   fully_read |-> fi.fully_read \div SubSec,
   last_seen |-> fi.last_seen \div SubSec]

\* file_info.rs:74: the nanoseconds of the mtime are computed in u64
MtimeOverflows(line) == line.mtime > U64Max

\* FileInfo::parse of a line that matches the grammar, in a build without
\* overflow checks: the nanoseconds of the mtime wrap
parse(line) ==
  FileInfo(line.rel_path, line.sha256_hexdigest, line.mtime % (U64Max + 1), line.size,
           line.last_seen * SubSec, line.fully_read * SubSec)

\* ------------------------------------------------------- snapshot store
StateName(ts)    == [ts |-> ts, ext |-> "state"]
ModifiedName(ts) == [ts |-> ts, ext |-> "modified"]
MissingName(ts)  == [ts |-> ts, ext |-> "missing"]

\* an entry of the state directory: a regular file with its lines, or a directory
RegularFile(lines) == [is_dir |-> FALSE, lines |-> lines]
Directory          == [is_dir |-> TRUE, lines |-> <<>>]

\* the names the state directory itself can have (cli.rs: state_dir)
StateDirNames == {"archive", "archive.state"}
EndsWithState(file_name) == file_name = "archive.state"

\* the last line of each path, parsed (HashMap::from_iter: a later line of
\* the same path replaces an earlier one)
StatesByFilename(lines) ==
  LET keys == {lines[i].rel_path : i \in 1..Len(lines)}
  IN [p \in keys |->
        LET i == CHOOSE i \in 1..Len(lines) :
                   /\ lines[i].rel_path = p
                   /\ \A j \in 1..Len(lines) : lines[j].rel_path = p => j <= i
        IN parse(lines[i])]

\* state.rs:13-38. WalkDir with max_depth(1) yields the state directory
\* itself (depth 0) first and then its children sorted by file name; the
\* filter keeps every entry whose name ends in .state, directories too; the
\* last one is opened and every line parsed. Opening a directory succeeds
\* and reading its first line fails, which l.unwrap() turns into a panic.
\* No entry: the empty map. overflow_checks is the build: with overflow
\* checks a line whose mtime does not fit u64 panics in parse.
read_state(root, dir, overflow_checks) ==
  LET states == {n \in DOMAIN dir : n.ext = "state"}
  IN IF states # {}
     THEN LET last == CHOOSE n \in states : \A o \in states : o.ts <= n.ts
          IN IF dir[last].is_dir THEN Err(<<"panic", "read_state">>)
             ELSE IF /\ overflow_checks
                     /\ \E i \in 1..Len(dir[last].lines) : MtimeOverflows(dir[last].lines[i])
             THEN Err(<<"panic", "parse">>)
             ELSE Ok(StatesByFilename(dir[last].lines))
     ELSE IF EndsWithState(root) THEN Err(<<"panic", "read_state">>)
     ELSE Ok([p \in {} |-> NoFile])

\* the lines of the snapshot an update run wrote in second PrevSecs when the
\* tree was `tree`: one line per file, in path order
SnapshotLines(tree) ==
  LET ps == SeqOfSet({p \in Paths : tree[p].exists})
  IN [i \in 1..Len(ps) |->
        write(FileInfo(ps[i], Sha256(tree[ps[i]].content), tree[ps[i]].mtime,
                       LenOf(tree[ps[i]].content), PrevSecs * SubSec, PrevSecs * SubSec))]

VARIABLES
  opts,                   \* cli: cmd, read_all_files, ignore_missing, only_presence, threads
  disk,                   \* the directory tree: path -> file (content digest, mtime, len)
  state_dir,              \* the state directory: file name -> entry
  pc,                     \* position of the main thread
  old_states_by_filename, \* main.rs:45
  walked,                 \* the last path the walk has yielded
  files_checked,          \* main.rs:57
  tasks,                  \* spawned hash tasks that have not sent their result, in spawn order
  channel,                \* results sent on check_files_sender, not yet received
  checked_files,          \* main.rs:60
  checked_files_deduped,  \* main.rs:182
  stats,                  \* the shared Stats
  result,                 \* what main returns
  codec,                  \* a snapshot line on its way through the codec
  invocation,             \* which run of the program this is, and how often another
                          \* process has written to the tree since it started
  now,                    \* state.rs:45: the local time the last write_state took its names from
  walker                  \* main.rs:115-137: the arm of the match the walk is in, and its record

vars == <<opts, disk, state_dir, pc, old_states_by_filename, walked, files_checked,
          tasks, channel, checked_files, checked_files_deduped, stats, result, codec,
          invocation, now, walker>>

FirstRun == [n |-> 1, writes |-> 0]

\* what a SystemTime::now() can return: a tick of the second after the one
\* the loaded snapshot was written in, or of the second after that. The wall
\* clock can be set back between two calls, so every reading is any of them.
ClockReadings ==
  ((PrevSecs + 1) * SubSec + 1)..((PrevSecs + 1) * SubSec + 1 + ClockSpan)

\* the second a reading of the clock falls in
SecondOf(time) == time \div SubSec

\* time_tz::system::get_timezone(): the time zone of the system, which can
\* change from one run to the next, or none
NoTimezone == [found |-> FALSE]
UtcOffset(seconds) == [found |-> TRUE, offset |-> seconds]
SystemTimezones == {NoTimezone, UtcOffset(0), UtcOffset(MaxUtcOffset)}

\* state.rs:45-47: the reading in the time zone of the system, formatted to
\* the second: the local wall time the files are named after
to_timezone(time, system_tz) == SecondOf(time) + system_tz.offset

\* write_state has not been called
NotYet == 0 - 1

\* the walk is between two files (main.rs:81)
Loop == [at |-> "loop"]

Opts ==
  {[cmd |-> "Update", read_all_files |-> r, ignore_missing |-> FALSE,
    only_presence |-> FALSE, threads |-> t, state_dir |-> "archive"] :
     r \in BOOLEAN, t \in 1..MaxThreads}
  \cup
  {[cmd |-> "Verify", read_all_files |-> FALSE, ignore_missing |-> i,
    only_presence |-> o, threads |-> t, state_dir |-> "archive"] :
     i \in BOOLEAN, o \in BOOLEAN, t \in 1..MaxThreads}

\* no line is in the codec
CodecIdle == [pc |-> "idle"]

Init ==
  /\ opts \in Opts
  /\ disk \in [Paths -> DiskFiles]
  /\ \E tree \in [Paths -> SnapshotFiles] :
       state_dir = IF \A p \in Paths : ~tree[p].exists
                   THEN [n \in {} |-> Directory]
                   ELSE [n \in {StateName(PrevSecs)} |-> RegularFile(SnapshotLines(tree))]
  /\ pc = "load"
  /\ old_states_by_filename = [p \in {} |-> NoFile]
  /\ walked = 0
  /\ files_checked = 0
  /\ tasks = <<>>
  /\ channel = <<>>
  /\ checked_files = <<>>
  /\ checked_files_deduped = <<>>
  /\ stats = Stats0
  /\ result = Running
  /\ codec = CodecIdle
  /\ invocation = FirstRun
  /\ now = NotYet
  /\ walker = Loop

\* the flag is taken from the command line in both modes
read_all_files_flag == opts.read_all_files

\* main.rs:24-36: verify always reads every file
read_all_files == IF opts.cmd = "Update" THEN opts.read_all_files ELSE TRUE

\* main.rs:44-45: an error of read_state ends the run (the ? operator)
LoadState ==
  /\ pc = "load"
  /\ \E overflow_checks \in BOOLEAN :
       LET r == read_state(opts.state_dir, state_dir, overflow_checks)
       IN IF r.ok
          THEN /\ old_states_by_filename' = r.val
               /\ pc' = "walk"
               /\ UNCHANGED result
          ELSE /\ result' = IF r.err[1] = "panic" THEN Panicked(r.err) ELSE Failure(r.err)
               /\ pc' = "done"
               /\ UNCHANGED old_states_by_filename
  /\ UNCHANGED <<codec, walker, invocation, now, opts, disk, state_dir, walked, files_checked, tasks, channel,
                 checked_files, checked_files_deduped, stats>>

\* --------------------------------------------------------- check engine
\* FileInfo::needs_reading, once the metadata has been read
needs_reading(fi, file) == fi.mtime # file.mtime \/ fi.len # LenOf(file.content)

\* a spawned closure (main.rs:93-112) and how far it has run: spawned, opened
\* (file_check.rs:77), reading
\* (file_check.rs:80-88, the bytes fed to the hasher so far), hashed (the
\* read that returned no byte), statted (file_check.rs:93), stamped
\* (file_check.rs:95), checked (the result of file.check, main.rs:94),
\* counted (main.rs:95-110)
NoResult == [ok |-> FALSE, err |-> <<>>]
Task(to_check) ==
  [file |-> to_check, at |-> "spawned", hasher |-> <<>>, mtime |-> 0, fully_read |-> 0,
   result |-> NoResult]
TaskPath(t) == IF t.file.kind = "New" THEN t.file.path ELSE t.file.fi.rel_path

\* file_check.rs:81, f.read(buf) with the file position at offset: the rest
\* of the file (the buffer is larger than every file)
read(file, offset) == SubSeq(Bytes(file.content), offset + 1, LenOf(file.content))

\* the digest is taken to be that of the first content of the file's size
hash_file_by_size(p, hasher, mtime, fully_read, last_seen) ==
  FileInfo(p, Sha256(2 * Len(hasher) - 1), mtime, Len(hasher), last_seen, fully_read)

\* file_check.rs:89-97: the record hash_file returns, from the bytes the
\* hasher was fed, the mtime the metadata gave and the two readings of the clock
hash_file(p, hasher, mtime, fully_read, last_seen) ==
  FileInfo(p, finalize(hasher), mtime, Len(hasher), last_seen, fully_read)

\* previous and current swapped in the Modified outcome
check_swapped(to_check, file_info) ==
  IF to_check.kind = "New"
  THEN New(file_info)
  ELSE LET file_needs_checking == to_check.fi
       IN IF file_info.sha256_digest = file_needs_checking.sha256_digest
          THEN Unmodifed(file_info)
          ELSE Modified(file_info, file_needs_checking)

\* FileToCheck::check, when the read succeeds: file_info is what hash_file
\* has returned
check(to_check, file_info) ==
  IF to_check.kind = "New"
  THEN New(file_info)
  ELSE LET file_needs_checking == to_check.fi
       IN IF file_info.sha256_digest = file_needs_checking.sha256_digest
          THEN Unmodifed(file_info)
          ELSE Modified(file_needs_checking, file_info)

\* StatsCollector
file_unchanged(s, fi) ==
  [s EXCEPT !.files_unchanged = @ + 1, !.files_unchanged_size = @ + fi.len]
file_read_unmodifed(s, fi) ==
  [s EXCEPT !.files_read = @ + 1, !.bytes_read = @ + fi.len,
            !.files_unchanged = @ + 1, !.files_unchanged_size = @ + fi.len]
file_read_modified(s, fi) ==
  [s EXCEPT !.files_read = @ + 1, !.bytes_read = @ + fi.len, !.files_modified = @ + 1]
file_read_new(s, fi) ==
  [s EXCEPT !.files_read = @ + 1, !.bytes_read = @ + fi.len, !.files_new = @ + 1]
files_not_found(s, amount) == [s EXCEPT !.files_not_found = @ + amount]
stats_files_checked(s, amount) == [s EXCEPT !.files_checked = @ + amount]
duplicates_removed(s, amount) == [s EXCEPT !.files_duplicate_removed = @ + amount]

\* the counters are not locked: the update of a task is lost when another
\* task has written the counters since this one read them
TaskStats_unlocked(s, check_result) ==
  IF s.files_read > 0 THEN s
  ELSE CASE check_result.tag = "New"       -> file_read_new(s, check_result.fi)
         [] check_result.tag = "Unmodifed" -> file_read_unmodifed(s, check_result.fi)
         [] check_result.tag = "Modified"  -> file_read_modified(s, check_result.current)
         [] check_result.tag = "Missing"   -> files_not_found(s, 1)

\* main.rs:95-110: the counters a finished hash task bumps
TaskStats(s, check_result) ==
  CASE check_result.tag = "New"       -> file_read_new(s, check_result.fi)
    [] check_result.tag = "Unmodifed" -> file_read_unmodifed(s, check_result.fi)
    [] check_result.tag = "Modified"  -> file_read_modified(s, check_result.current)
    [] check_result.tag = "Missing"   -> files_not_found(s, 1)

\* the candidate paths the walk has still to yield, and the next one
Remaining == {p \in Paths : p > walked /\ disk[p].exists}
NextFile  == CHOOSE p \in Remaining : \A q \in Remaining : p <= q

\* the entry is looked up but left in the map
MapRemove_kept(m, k) == m

MapRemove(m, k) == [q \in DOMAIN m \ {k} |-> m[q]]

\* the skipped record is stamped as if it had been read
Seen_reread(fi, time) == [fi EXCEPT !.last_seen = time, !.fully_read = time]

\* main.rs:126-127: time is what SystemTime::now() has returned
Seen(fi, time) == [fi EXCEPT !.last_seen = time]

\* main.rs:81-118: a candidate that is not in the snapshot
WalkNew ==
  /\ pc = "walk"
  /\ walker = Loop
  /\ Remaining # {}
  /\ NextFile \notin DOMAIN old_states_by_filename
  /\ walked' = NextFile
  /\ files_checked' = files_checked + 1
  /\ tasks' = Append(tasks, Task(ToCheckNew(NextFile)))
  /\ UNCHANGED <<codec, walker, invocation, now, opts, disk, state_dir, pc, old_states_by_filename,
                 channel, checked_files, checked_files_deduped, stats, result>>

\* main.rs:81-123: a candidate that is in the snapshot: its record is taken
\* out of the map and needs_reading reads the metadata of the file, which
\* selects the arm of the match; stat_ok is whether reading the metadata
\* succeeds
WalkTracked ==
  /\ pc = "walk"
  /\ walker = Loop
  /\ Remaining # {}
  /\ NextFile \in DOMAIN old_states_by_filename
  /\ walked' = NextFile
  /\ files_checked' = files_checked + 1
  /\ old_states_by_filename' = MapRemove(old_states_by_filename, NextFile)
  /\ LET fi == old_states_by_filename[NextFile]
     IN \E stat_ok \in BOOLEAN :
          walker' = IF ~stat_ok THEN [at |-> "failed", fi |-> fi]
                    ELSE IF needs_reading(fi, disk[NextFile]) \/ read_all_files
                    THEN [at |-> "needs_checking", fi |-> fi]
                    ELSE [at |-> "unchanged", fi |-> fi]
  /\ UNCHANGED <<codec, invocation, now, opts, disk, state_dir, pc, tasks, channel, checked_files,
                 checked_files_deduped, stats, result>>

\* what a step inside an arm leaves alone
walk_frame == <<codec, invocation, now, opts, disk, state_dir, pc, old_states_by_filename, walked,
                files_checked, checked_files_deduped, result>>

\* main.rs:121: the hash task of the file is spawned
WalkSpawn ==
  /\ pc = "walk"
  /\ walker.at = "needs_checking"
  /\ tasks' = Append(tasks, Task(ToCheckNeedsChecking(walker.fi)))
  /\ walker' = Loop
  /\ UNCHANGED <<walk_frame, channel, checked_files, stats>>

\* main.rs:124: the file is counted, under the lock of the collector
WalkUnchanged ==
  /\ pc = "walk"
  /\ walker.at = "unchanged"
  /\ stats' = file_unchanged(stats, walker.fi)
  /\ walker' = [walker EXCEPT !.at = "counted"]
  /\ UNCHANGED <<walk_frame, tasks, channel, checked_files>>

\* main.rs:126-127: the clock is read for last_seen
WalkLastSeen ==
  /\ pc = "walk"
  /\ walker.at = "counted"
  /\ \E time \in ClockReadings : walker' = [at |-> "seen", fi |-> Seen(walker.fi, time)]
  /\ UNCHANGED <<walk_frame, tasks, channel, checked_files, stats>>

\* main.rs:128: the outcome is pushed
WalkPush ==
  /\ pc = "walk"
  /\ walker.at = "seen"
  /\ checked_files' = Append(checked_files, Unmodifed(walker.fi))
  /\ walker' = Loop
  /\ UNCHANGED <<walk_frame, tasks, channel, stats>>

\* main.rs:130-135: the failure of needs_reading is sent on the channel
WalkSendFailure ==
  /\ pc = "walk"
  /\ walker.at = "failed"
  /\ channel' = Append(channel, Err(<<"stat", walker.fi.rel_path>>))
  /\ walker' = Loop
  /\ UNCHANGED <<walk_frame, tasks, checked_files, stats>>

\* main.rs:81-137: the main thread takes a step of the walk
Walk ==
  \/ WalkNew \/ WalkTracked \/ WalkSpawn \/ WalkUnchanged \/ WalkLastSeen \/ WalkPush
  \/ WalkSendFailure

\* Tasks start in spawn order, opts.threads at a time: the task at place j
\* of the queue is on a pool thread
OnThread(j) == j \in 1..Len(tasks) /\ j <= opts.threads

\* what a step of a hash task leaves alone
task_frame == <<codec, walker, invocation, now, opts, disk, state_dir, pc, old_states_by_filename,
                walked, files_checked, checked_files, checked_files_deduped, result>>

\* the result of a task whose file could not be opened, read or stat'ed
ReadFailed(t) ==
  [t EXCEPT !.at = "checked", !.result = Err(<<"read", TaskPath(t)>>),
            !.hasher = <<>>, !.mtime = 0, !.fully_read = 0]

\* file_check.rs:77: the file is opened
HashTaskOpen ==
  /\ pc = "walk"
  /\ \E j \in 1..Len(tasks), open_ok \in BOOLEAN :
       /\ OnThread(j)
       /\ tasks[j].at = "spawned"
       /\ tasks' = [tasks EXCEPT ![j] = IF ~open_ok THEN ReadFailed(tasks[j])
                                        ELSE [tasks[j] EXCEPT !.at = "opened"]]
  /\ UNCHANGED <<task_frame, channel, stats>>

\* file_check.rs:80-88: read() is called; the bytes it returns are fed to
\* the hasher, and the loop ends with the call that returns none
HashTaskRead ==
  /\ pc = "walk"
  /\ \E j \in 1..Len(tasks), read_ok \in BOOLEAN :
       /\ OnThread(j)
       /\ tasks[j].at \in {"opened", "reading"}
       /\ LET t     == tasks[j]
              bytes == read(disk[TaskPath(t)], Len(t.hasher))
          IN tasks' =
               [tasks EXCEPT ![j] =
                  IF ~read_ok THEN ReadFailed(t)
                  ELSE [t EXCEPT !.hasher = t.hasher \o bytes,
                                 !.at = IF bytes = <<>> THEN "hashed" ELSE "reading"]]
  /\ UNCHANGED <<task_frame, channel, stats>>

\* file_check.rs:93: the metadata of the path, for the mtime
HashTaskStat ==
  /\ pc = "walk"
  /\ \E j \in 1..Len(tasks), stat_ok \in BOOLEAN :
       /\ OnThread(j)
       /\ tasks[j].at = "hashed"
       /\ LET t == tasks[j]
          IN tasks' =
               [tasks EXCEPT ![j] =
                  IF ~stat_ok THEN ReadFailed(t)
                  ELSE [t EXCEPT !.mtime = disk[TaskPath(t)].mtime, !.at = "statted"]]
  /\ UNCHANGED <<task_frame, channel, stats>>

\* file_check.rs:95: the first reading of the clock
HashTaskFullyRead ==
  /\ pc = "walk"
  /\ \E j \in 1..Len(tasks), time \in ClockReadings :
       /\ OnThread(j)
       /\ tasks[j].at = "statted"
       /\ tasks' = [tasks EXCEPT ![j].fully_read = time, ![j].at = "stamped"]
  /\ UNCHANGED <<task_frame, channel, stats>>

\* file_check.rs:96 and 48-69: the second reading of the clock; hash_file
\* returns the record and check classifies the file
HashTaskLastSeen ==
  /\ pc = "walk"
  /\ \E j \in 1..Len(tasks), time \in ClockReadings :
       /\ OnThread(j)
       /\ tasks[j].at = "stamped"
       /\ LET t == tasks[j]
          IN tasks' =
               [tasks EXCEPT ![j] =
                  [t EXCEPT !.at = "checked",
                            !.result = Ok(check(t.file,
                                                hash_file(TaskPath(t), t.hasher, t.mtime,
                                                          t.fully_read, time))),
                            !.hasher = <<>>, !.mtime = 0, !.fully_read = 0]]
  /\ UNCHANGED <<task_frame, channel, stats>>

\* main.rs:95-110: the counters, under the lock of the collector
HashTaskStats ==
  /\ pc = "walk"
  /\ \E j \in 1..Len(tasks) :
       /\ OnThread(j)
       /\ tasks[j].at = "checked"
       /\ tasks[j].result.ok
       /\ stats' = TaskStats(stats, tasks[j].result.val)
       /\ tasks' = [tasks EXCEPT ![j].at = "counted"]
  /\ UNCHANGED <<task_frame, channel>>

\* main.rs:111: the result is sent and the closure returns
HashTaskSend ==
  /\ pc = "walk"
  /\ \E j \in 1..Len(tasks) :
       /\ OnThread(j)
       /\ \/ tasks[j].at = "counted"
          \/ tasks[j].at = "checked" /\ ~tasks[j].result.ok
       /\ channel' = Append(channel, tasks[j].result)
       /\ tasks' = [i \in 1..(Len(tasks) - 1) |-> IF i < j THEN tasks[i] ELSE tasks[i + 1]]
  /\ UNCHANGED <<task_frame, stats>>

\* main.rs:93-112: a pool thread takes a step of a spawned task. The tasks
\* on the pool threads take their steps in any order.
HashTask ==
  \/ HashTaskOpen \/ HashTaskRead \/ HashTaskStat \/ HashTaskFullyRead \/ HashTaskLastSeen
  \/ HashTaskStats \/ HashTaskSend

\* main.rs:157-162
SortKey(f) == IF f.tag = "Modified" THEN f.current.rel_path ELSE f.fi.rel_path

RECURSIVE Insert(_, _)
Insert(x, sorted) ==
  IF sorted = <<>> THEN <<x>>
  ELSE IF SortKey(Head(sorted)) <= SortKey(x)
       THEN <<Head(sorted)>> \o Insert(x, Tail(sorted))
       ELSE <<x>> \o sorted

\* the list is left in the order the outcomes arrived in
SortByPath_arrival(s) == s

RECURSIVE SortByPath(_)
\* a stable sort: outcomes of equal key keep their order
SortByPath(s) ==
  IF s = <<>> THEN <<>>
  ELSE Insert(s[Len(s)], SortByPath(SubSeq(s, 1, Len(s) - 1)))

\* the failures received on the channel are dropped and the run goes on
Collect_drops_failures ==
  /\ pc = "walk"
  /\ walker = Loop
  /\ Remaining = {}
  /\ tasks = <<>>
  /\ LET left == DOMAIN old_states_by_filename
         oks  == FilterMap(LAMBDA r : IF r.ok THEN <<r.val>> ELSE <<>>, channel)
     IN /\ stats' = files_not_found(
                      stats_files_checked(stats, files_checked + Cardinality(left)),
                      Cardinality(left))
        /\ \E order \in Perms(left) :
             checked_files' = SortByPath(
               checked_files
               \o [i \in 1..Cardinality(left) |-> Missing(old_states_by_filename[order[i]])]
               \o oks)
  /\ pc' = "mode"
  /\ old_states_by_filename' = [p \in {} |-> NoFile]
  /\ channel' = <<>>
  /\ UNCHANGED <<codec, walker, invocation, now, opts, disk, state_dir, walked, files_checked, tasks,
                 checked_files_deduped, result>>

\* the channel is drained as soon as the walk is over, without waiting for
\* the tasks that are still running
Collect_without_join ==
  /\ pc = "walk"
  /\ walker = Loop
  /\ Remaining = {}
  /\ LET left == DOMAIN old_states_by_filename
     IN /\ stats' = files_not_found(
                      stats_files_checked(stats, files_checked + Cardinality(left)),
                      Cardinality(left))
        /\ IF \E i \in 1..Len(channel) : ~channel[i].ok
           THEN /\ result' = Failure(channel[CHOOSE i \in 1..Len(channel) :
                                            /\ ~channel[i].ok
                                            /\ \A j \in 1..(i - 1) : channel[j].ok].err)
                /\ pc' = "done"
                /\ \E order \in Perms(left) :
                     checked_files' = checked_files \o
                       [i \in 1..Cardinality(left) |-> Missing(old_states_by_filename[order[i]])]
           ELSE /\ pc' = "mode"
                /\ result' = result
                /\ \E order \in Perms(left) :
                     checked_files' = SortByPath(
                       checked_files
                       \o [i \in 1..Cardinality(left) |-> Missing(old_states_by_filename[order[i]])]
                       \o [i \in 1..Len(channel) |-> channel[i].val])
  /\ old_states_by_filename' = [p \in {} |-> NoFile]
  /\ channel' = <<>>
  /\ UNCHANGED <<codec, walker, invocation, now, opts, disk, state_dir, walked, files_checked, tasks,
                 checked_files_deduped>>

\* main.rs:140-162: the scope returns once the walk is over and every task
\* has finished; the rest of the snapshot map becomes Missing (in the map's
\* order, which is any order), the channel is drained, and the list is sorted
Collect ==
  /\ pc = "walk"
  /\ walker = Loop
  /\ Remaining = {}
  /\ tasks = <<>>
  /\ LET left == DOMAIN old_states_by_filename
     IN /\ stats' = files_not_found(
                      stats_files_checked(stats, files_checked + Cardinality(left)),
                      Cardinality(left))
        /\ IF \E i \in 1..Len(channel) : ~channel[i].ok
           THEN /\ result' = Failure(channel[CHOOSE i \in 1..Len(channel) :
                                            /\ ~channel[i].ok
                                            /\ \A j \in 1..(i - 1) : channel[j].ok].err)
                /\ pc' = "done"
                /\ \E order \in Perms(left) :
                     checked_files' = checked_files \o
                       [i \in 1..Cardinality(left) |-> Missing(old_states_by_filename[order[i]])]
           ELSE /\ pc' = "mode"
                /\ result' = result
                /\ \E order \in Perms(left) :
                     checked_files' = SortByPath(
                       checked_files
                       \o [i \in 1..Cardinality(left) |-> Missing(old_states_by_filename[order[i]])]
                       \o [i \in 1..Len(channel) |-> channel[i].val])
  /\ old_states_by_filename' = [p \in {} |-> NoFile]
  /\ channel' = <<>>
  /\ UNCHANGED <<codec, walker, invocation, now, opts, disk, state_dir, walked, files_checked, tasks,
                 checked_files_deduped>>

\* ------------------------------------------------ reconciliation & dedup
\* every outcome's digest is collected, Missing included
present_with_missing(checked) ==
  {checked[i].fi.sha256_digest :
     i \in {k \in 1..Len(checked) : checked[k].tag \in {"New", "Unmodifed", "Missing"}}}
  \cup
  {checked[i].current.sha256_digest :
     i \in {k \in 1..Len(checked) : checked[k].tag = "Modified"}}

\* the previous digest of a Modified outcome is collected, not the current one
present_with_previous(checked) ==
  {checked[i].fi.sha256_digest :
     i \in {k \in 1..Len(checked) : checked[k].tag \in {"New", "Unmodifed"}}}
  \cup
  {checked[i].previous.sha256_digest :
     i \in {k \in 1..Len(checked) : checked[k].tag = "Modified"}}

\* main.rs:170-179: the digests of the files found on disk in this run
present_sha256_digests(checked) ==
  {checked[i].fi.sha256_digest :
     i \in {k \in 1..Len(checked) : checked[k].tag \in {"New", "Unmodifed"}}}
  \cup
  {checked[i].current.sha256_digest :
     i \in {k \in 1..Len(checked) : checked[k].tag = "Modified"}}

\* the current digest of a Modified outcome is looked up, not the previous one
DedupOne_current(f, present) ==
  CASE f.tag = "Missing" ->
         IF f.fi.sha256_digest \in present THEN <<>> ELSE <<Missing(f.fi)>>
    [] f.tag = "Modified" ->
         IF f.current.sha256_digest \in present
         THEN <<New(f.current)>>
         ELSE <<Modified(f.previous, f.current)>>
    [] OTHER -> <<f>>

\* every Missing outcome is dropped, whether its digest is present or not
DedupOne_drops_missing(f, present) ==
  CASE f.tag = "Missing" -> <<>>
    [] f.tag = "Modified" ->
         IF f.previous.sha256_digest \in present
         THEN <<New(f.current)>>
         ELSE <<Modified(f.previous, f.current)>>
    [] OTHER -> <<f>>

\* main.rs:184-203: what the filter_map closure returns for one outcome
DedupOne(f, present) ==
  CASE f.tag = "Missing" ->
         IF f.fi.sha256_digest \in present THEN <<>> ELSE <<Missing(f.fi)>>
    [] f.tag = "Modified" ->
         IF f.previous.sha256_digest \in present
         THEN <<New(f.current)>>
         ELSE <<Modified(f.previous, f.current)>>
    [] OTHER -> <<f>>

\* main.rs:170-204
dedup(checked) ==
  LET present == present_sha256_digests(checked)
  IN FilterMap(LAMBDA f : DedupOne(f, present), checked)

\* main.rs:181-195: the number of outcomes the closure counted
DuplicatesRemoved(checked) ==
  LET present == present_sha256_digests(checked)
  IN Cardinality({i \in 1..Len(checked) : DedupOne(checked[i], present) # <<checked[i]>>})

\* ------------------------------------------------------- write_state
\* the lines write_state appends to each of the three files
\* a Modified outcome is written with its previous record
StateLines_previous(outcomes) ==
  FilterMap(LAMBDA f : CASE f.tag \in {"New", "Unmodifed"} -> <<write(f.fi)>>
                         [] f.tag = "Modified" -> <<write(f.previous)>>
                         [] OTHER -> <<>>, outcomes)
StateLines(outcomes) ==
  FilterMap(LAMBDA f : CASE f.tag \in {"New", "Unmodifed"} -> <<write(f.fi)>>
                         [] f.tag = "Modified" -> <<write(f.current)>>
                         [] OTHER -> <<>>, outcomes)
ModifiedLines(outcomes) ==
  FilterMap(LAMBDA f : IF f.tag = "Modified" THEN <<write(f.previous)>> ELSE <<>>, outcomes)
MissingLines(outcomes) ==
  FilterMap(LAMBDA f : IF f.tag = "Missing" THEN <<write(f.fi)>> ELSE <<>>, outcomes)

WithFile(dir, name, lines) ==
  [n \in DOMAIN dir \cup {name} |-> IF n = name THEN RegularFile(lines) ELSE dir[n]]

\* file_info.rs:94: duration_since(UNIX_EPOCH).unwrap() panics when the
\* mtime is before the epoch
WritePanics(fi) == fi.mtime < 0

\* the first outcome one of whose records cannot be written (0: none)
FirstUnwritable(outcomes) ==
  LET bad == {i \in 1..Len(outcomes) :
                IF outcomes[i].tag = "Modified"
                THEN WritePanics(outcomes[i].previous) \/ WritePanics(outcomes[i].current)
                ELSE WritePanics(outcomes[i].fi)}
  IN IF bad = {} THEN 0 ELSE CHOOSE i \in bad : \A j \in bad : i <= j

\* state.rs:72-87 up to the panic: the outcomes before the unwritable one
\* are written, and of a Modified outcome the previous record before the
\* current one; the buffered lines are flushed when the writers are
\* dropped, and no file is removed
PartialWrite(dir, ts, outcomes) ==
  LET k    == FirstUnwritable(outcomes)
      done == SubSeq(outcomes, 1, k - 1)
      half == IF outcomes[k].tag = "Modified" /\ ~WritePanics(outcomes[k].previous)
              THEN <<write(outcomes[k].previous)>> ELSE <<>>
  IN WithFile(WithFile(WithFile(dir, StateName(ts), StateLines(done)),
                       ModifiedName(ts), ModifiedLines(done) \o half),
              MissingName(ts), MissingLines(done))

\* the files are opened with create, which truncates a file that exists
write_state_truncating(dir, ts, outcomes) ==
  LET d1 == WithFile(dir, StateName(ts), StateLines(outcomes))
      d2 == IF ModifiedLines(outcomes) = <<>> /\ ModifiedName(ts) \notin DOMAIN dir THEN d1
            ELSE WithFile(d1, ModifiedName(ts), ModifiedLines(outcomes))
      d3 == IF MissingLines(outcomes) = <<>> /\ MissingName(ts) \notin DOMAIN dir THEN d2
            ELSE WithFile(d2, MissingName(ts), MissingLines(outcomes))
  IN IF FirstUnwritable(outcomes) > 0
     THEN [ok |-> FALSE, err |-> "panic", dir |-> PartialWrite(dir, ts, outcomes)]
     ELSE [ok |-> TRUE, err |-> "", dir |-> d3]

\* the empty .modified and .missing files are left in place
write_state_keeps_empty_logs(dir, ts, outcomes) ==
  IF StateName(ts) \in DOMAIN dir THEN [ok |-> FALSE, err |-> "exists", dir |-> dir]
  ELSE IF ModifiedName(ts) \in DOMAIN dir
  THEN [ok |-> FALSE, err |-> "exists", dir |-> WithFile(dir, StateName(ts), <<>>)]
  ELSE IF MissingName(ts) \in DOMAIN dir
  THEN [ok |-> FALSE, err |-> "exists",
        dir |-> WithFile(WithFile(dir, StateName(ts), <<>>), ModifiedName(ts), <<>>)]
  ELSE IF FirstUnwritable(outcomes) > 0
  THEN [ok |-> FALSE, err |-> "panic", dir |-> PartialWrite(dir, ts, outcomes)]
  ELSE [ok |-> TRUE, err |-> "",
        dir |-> WithFile(WithFile(WithFile(dir, StateName(ts), StateLines(outcomes)),
                                  ModifiedName(ts), ModifiedLines(outcomes)),
                         MissingName(ts), MissingLines(outcomes))]

\* state.rs:40-98: the three files are created with create_new, in this
\* order; a name that exists fails the call and leaves the files created
\* before it (empty); a record that cannot be written aborts the run and
\* leaves the three files with the lines written so far; empty logs are
\* removed at the end
write_state(dir, ts, outcomes) ==
  IF StateName(ts) \in DOMAIN dir THEN [ok |-> FALSE, err |-> "exists", dir |-> dir]
  ELSE IF ModifiedName(ts) \in DOMAIN dir
  THEN [ok |-> FALSE, err |-> "exists", dir |-> WithFile(dir, StateName(ts), <<>>)]
  ELSE IF MissingName(ts) \in DOMAIN dir
  THEN [ok |-> FALSE, err |-> "exists",
        dir |-> WithFile(WithFile(dir, StateName(ts), <<>>), ModifiedName(ts), <<>>)]
  ELSE IF FirstUnwritable(outcomes) > 0
  THEN [ok |-> FALSE, err |-> "panic", dir |-> PartialWrite(dir, ts, outcomes)]
  ELSE LET d1 == WithFile(dir, StateName(ts), StateLines(outcomes))
           d2 == IF ModifiedLines(outcomes) = <<>> THEN d1
                 ELSE WithFile(d1, ModifiedName(ts), ModifiedLines(outcomes))
           d3 == IF MissingLines(outcomes) = <<>> THEN d2
                 ELSE WithFile(d2, MissingName(ts), MissingLines(outcomes))
       IN [ok |-> TRUE, err |-> "", dir |-> d3]

\* main.rs:164-220; state.rs:44-45: write_state asks for the time zone of
\* the system (a panic when there is none), reads the clock and names its
\* files after the local time
Update ==
  /\ pc = "mode"
  /\ opts.cmd = "Update"
  /\ checked_files_deduped' = dedup(checked_files)
  /\ stats' = duplicates_removed(stats, DuplicatesRemoved(checked_files))
  /\ \E system_tz \in SystemTimezones, time \in ClockReadings :
       IF ~system_tz.found
       THEN /\ result' = Panicked(<<"write_state", "timezone">>)
            /\ UNCHANGED <<state_dir, now>>
       ELSE LET w == write_state(state_dir, to_timezone(time, system_tz),
                                 dedup(checked_files))
            IN /\ now' = to_timezone(time, system_tz)
               /\ state_dir' = w.dir
               /\ result' = IF w.ok THEN Success
                             ELSE IF w.err = "panic"
                             THEN Panicked(<<"write_state", "panic">>)
                             ELSE Failure(<<"write_state">>)
  /\ pc' = "done"
  /\ UNCHANGED <<codec, walker, invocation, opts, disk, old_states_by_filename, walked, files_checked,
                 tasks, channel, checked_files>>

\* ------------------------------------------------ verify policy evaluator
CountTag(checked, tags) == Cardinality({i \in 1..Len(checked) : checked[i].tag \in tags})

\* the Missing records are left out of the archive set
archive_without_missing(checked) ==
  {checked[i].fi.sha256_digest :
     i \in {k \in 1..Len(checked) : checked[k].tag = "Unmodifed"}}
  \cup
  {checked[i].previous.sha256_digest :
     i \in {k \in 1..Len(checked) : checked[k].tag = "Modified"}}

\* main.rs:229-238
archive_sha256_digests(checked) ==
  {checked[i].fi.sha256_digest :
     i \in {k \in 1..Len(checked) : checked[k].tag \in {"Unmodifed", "Missing"}}}
  \cup
  {checked[i].previous.sha256_digest :
     i \in {k \in 1..Len(checked) : checked[k].tag = "Modified"}}

\* main.rs:243-254 and 283-294
NotPresent(checked) ==
  LET archive == archive_sha256_digests(checked)
  IN Cardinality({i \in 1..Len(checked) :
       \/ checked[i].tag = "New" /\ checked[i].fi.sha256_digest \notin archive
       \/ checked[i].tag = "Modified" /\ checked[i].current.sha256_digest \notin archive})

\* main.rs:295-306
missing_sha256(checked) ==
  archive_sha256_digests(checked) \ present_sha256_digests(checked)

\* main.rs:241-262: every file found must be in the archive
verify_found_in_archive(checked) ==
  IF NotPresent(checked) > 0
  THEN Failure(<<"files not found in archive", NotPresent(checked)>>)
  ELSE Success

\* Missing outcomes are counted with the Modified ones
verify_unchanged_in_place_missing(checked) ==
  LET missing_or_modified == CountTag(checked, {"Missing", "Modified"})
      new == CountTag(checked, {"New"})
  IN IF missing_or_modified > 0
     THEN Failure(<<"files changed", missing_or_modified,
                    "files not found in archive", new>>)
     ELSE Success

\* main.rs:263-280: the files found must match the archive at their path
verify_unchanged_in_place(checked) ==
  LET missing_or_modified == CountTag(checked, {"Modified"})
      new == CountTag(checked, {"New"})
  IN IF missing_or_modified > 0
     THEN Failure(<<"files changed", missing_or_modified,
                    "files not found in archive", new>>)
     ELSE Success

\* the archived digests that were not found do not fail the rule
verify_two_way_found_only(checked) ==
  IF NotPresent(checked) > 0
  THEN Failure(<<"files not found in archive", NotPresent(checked),
                 "files in archive not found", Cardinality(missing_sha256(checked))>>)
  ELSE Success

\* main.rs:281-315: every file found is archived and every archived digest is found
verify_two_way(checked) ==
  IF NotPresent(checked) > 0 \/ missing_sha256(checked) # {}
  THEN Failure(<<"files not found in archive", NotPresent(checked),
                 "files in archive not found", Cardinality(missing_sha256(checked))>>)
  ELSE Success

\* New outcomes do not fail the rule
verify_strict_new_tolerated(checked) ==
  LET missing_or_modified == CountTag(checked, {"Missing", "Modified"})
      new == CountTag(checked, {"New"})
  IN IF missing_or_modified > 0
     THEN Failure(<<"files missing or changed", missing_or_modified,
                    "files not found in archive", new>>)
     ELSE Success

\* main.rs:316-338: every archived file is found at its path, and nothing else
verify_strict(checked) ==
  LET missing_or_modified == CountTag(checked, {"Missing", "Modified"})
      new == CountTag(checked, {"New"})
  IN IF missing_or_modified > 0 \/ new > 0
     THEN Failure(<<"files missing or changed", missing_or_modified,
                    "files not found in archive", new>>)
     ELSE Success

\* the two presence-only rules are selected by the wrong value of ignore-missing
verify_presence_swapped(checked, ignore_missing, only_presence) ==
  CASE ignore_missing /\ only_presence   -> verify_two_way(checked)
    [] ignore_missing /\ ~only_presence  -> verify_unchanged_in_place(checked)
    [] ~ignore_missing /\ only_presence  -> verify_found_in_archive(checked)
    [] ~ignore_missing /\ ~only_presence -> verify_strict(checked)

\* main.rs:240-339: the verdict of the rule the two flags select
verify(checked, ignore_missing, only_presence) ==
  CASE ignore_missing /\ only_presence   -> verify_found_in_archive(checked)
    [] ignore_missing /\ ~only_presence  -> verify_unchanged_in_place(checked)
    [] ~ignore_missing /\ only_presence  -> verify_two_way(checked)
    [] ~ignore_missing /\ ~only_presence -> verify_strict(checked)

\* the snapshot is written after the verdict, as in update mode
Verify_writes ==
  /\ pc = "mode"
  /\ opts.cmd = "Verify"
  /\ result' = verify(checked_files, opts.ignore_missing, opts.only_presence)
  /\ \E system_tz \in SystemTimezones \ {NoTimezone}, time \in ClockReadings :
       /\ now' = to_timezone(time, system_tz)
       /\ state_dir' = write_state(state_dir, to_timezone(time, system_tz), checked_files).dir
  /\ pc' = "done"
  /\ UNCHANGED <<codec, walker, invocation, opts, disk, old_states_by_filename, walked, files_checked,
                 tasks, channel, checked_files, checked_files_deduped, stats>>

\* main.rs:221-340
Verify ==
  /\ pc = "mode"
  /\ opts.cmd = "Verify"
  /\ result' = verify(checked_files, opts.ignore_missing, opts.only_presence)
  /\ pc' = "done"
  /\ UNCHANGED <<codec, walker, invocation, now, opts, disk, state_dir, old_states_by_filename, walked, files_checked,
                 tasks, channel, checked_files, checked_files_deduped, stats>>

Next == LoadState \/ Walk \/ HashTask \/ Collect \/ Update \/ Verify

Spec == Init /\ [][Next]_vars

\* ---------------------------------------------- runs on any state directory
\* a modification time before 1970
BeforeEpoch == 0 - 1

\* the files of the trees these runs start from
StoreFiles == {NoFile, DiskFile(1, 1), DiskFile(NumContents, NumMtimes), DiskFile(2, BeforeEpoch)}

\* the trees earlier snapshots were taken of
StoreSnapshots ==
  {[p \in Paths |-> DiskFile(1, 1)],
   [p \in Paths |-> IF p = 1 THEN NoFile ELSE DiskFile(NumContents, NumMtimes)]}

DirOf(pairs) == [n \in {pr[1] : pr \in pairs} |-> (CHOOSE pr \in pairs : pr[1] = n)[2]]

\* state directories: an older snapshot or none; the snapshot of second
\* PrevSecs, a directory of that name, or none; the logs of second PrevSecs
\* or none; and any of the three names of the second this run starts in
StoreDirs ==
  LET snap(t) == RegularFile(SnapshotLines(t))
      s1 == CHOOSE t \in StoreSnapshots : t[1].exists
      s2 == CHOOSE t \in StoreSnapshots : ~t[1].exists
      older == {{}} \cup {{<<StateName(PrevSecs - 1), snap(t)>>} : t \in StoreSnapshots}
      prev  == {{}, {<<StateName(PrevSecs), Directory>>}}
               \cup {{<<StateName(PrevSecs), snap(t)>>} : t \in StoreSnapshots}
      logs  == {{}, {<<ModifiedName(PrevSecs), snap(s1)>>, <<MissingName(PrevSecs), snap(s1)>>}}
      clash == SUBSET {<<StateName(PrevSecs + 1), snap(s1)>>,
                       <<ModifiedName(PrevSecs + 1), snap(s2)>>,
                       <<MissingName(PrevSecs + 1), snap(s2)>>}
  IN {DirOf(o \cup pv \cup l \cup c) : o \in older, pv \in prev, l \in logs, c \in clash}

StoreOpts ==
  {[cmd |-> c, read_all_files |-> FALSE, ignore_missing |-> FALSE,
    only_presence |-> FALSE, threads |-> 1, state_dir |-> d] :
     c \in {"Update", "Verify"}, d \in StateDirNames}

InitStore ==
  /\ opts \in StoreOpts
  /\ disk \in [Paths -> StoreFiles]
  /\ state_dir \in StoreDirs
  /\ pc = "load"
  /\ old_states_by_filename = [p \in {} |-> NoFile]
  /\ walked = 0
  /\ files_checked = 0
  /\ tasks = <<>>
  /\ channel = <<>>
  /\ checked_files = <<>>
  /\ checked_files_deduped = <<>>
  /\ stats = Stats0
  /\ result = Running
  /\ codec = CodecIdle
  /\ invocation = FirstRun
  /\ now = NotYet
  /\ walker = Loop

SpecStore == InitStore /\ [][Next]_vars

\* ------------------------------- two runs, and files written while hashed
\* a modification time whose nanoseconds do not fit u64
FarFuture == U64Max + 2

\* the files of the trees these runs see: two contents of the same length,
\* a longer content, and a file with a modification time in the far future
RerunFiles ==
  {NoFile, DiskFile(1, 1), DiskFile(2, NumMtimes), DiskFile(NumContents, NumMtimes),
   DiskFile(NumContents, FarFuture)}

\* the state directory is empty, or holds the snapshot of second PrevSecs,
\* or a snapshot named after a later local time than this run can take
\* (written when the offset of the time zone was larger)
LaterSecs == PrevSecs + 2 + MaxUtcOffset + 1

\* the trees the first run starts on: any of these files at the first path,
\* and at the other paths no file or the file the snapshot records
RerunTrees ==
  {tree \in [Paths -> RerunFiles] :
     \A p \in Paths \ {1} : tree[p] \in {NoFile, DiskFile(1, 1)}}

InitRerun ==
  /\ opts \in {o \in Opts : o.cmd = "Update" /\ o.threads = 1}
  /\ disk \in RerunTrees
  /\ state_dir \in {[n \in {} |-> Directory]}
                   \cup {[n \in {StateName(ts)} |->
                            RegularFile(SnapshotLines([p \in Paths |-> DiskFile(1, 1)]))] :
                         ts \in {PrevSecs, LaterSecs}}
  /\ pc = "load"
  /\ old_states_by_filename = [p \in {} |-> NoFile]
  /\ walked = 0
  /\ files_checked = 0
  /\ tasks = <<>>
  /\ channel = <<>>
  /\ checked_files = <<>>
  /\ checked_files_deduped = <<>>
  /\ stats = Stats0
  /\ result = Running
  /\ codec = CodecIdle
  /\ invocation = FirstRun
  /\ now = NotYet
  /\ walker = Loop

\* another process rewrites a file of the tree in place while the first
\* run walks and hashes: before or after the walk reads its metadata
\* (main.rs:119), before or after a task opens it (file_check.rs:77),
\* between two read() calls (80-88), before or after the task reads its
\* metadata (93), and until the outcomes are written. A task that has the
\* file open goes on reading at its offset in the new bytes.
OtherProcessWrites ==
  /\ pc \in {"walk", "mode"}
  /\ invocation.n = 1
  /\ invocation.writes < MaxWrites
  /\ invocation' = [invocation EXCEPT !.writes = @ + 1]
  /\ \E p \in Paths, after \in RerunFiles \ {NoFile} :
       /\ disk[p].exists
       /\ after # disk[p]
       /\ disk' = [disk EXCEPT ![p] = after]
  /\ UNCHANGED <<codec, walker, now, opts, state_dir, pc, old_states_by_filename,
                 walked, files_checked, tasks, channel, checked_files, checked_files_deduped,
                 stats, result>>

\* the program is run again after an update run that succeeded: an update
\* without the read-all flag, on the tree and the state directory as they
\* are; the clock and the time zone are what they are by then
StartNextRun ==
  /\ pc = "done"
  /\ invocation.n = 1
  /\ opts.cmd = "Update"
  /\ result = Success
  /\ invocation' = [n |-> 2, writes |-> 0]
  /\ opts' = [opts EXCEPT !.read_all_files = FALSE]
  /\ pc' = "load"
  /\ old_states_by_filename' = [p \in {} |-> NoFile]
  /\ walked' = 0
  /\ files_checked' = 0
  /\ tasks' = <<>>
  /\ channel' = <<>>
  /\ checked_files' = <<>>
  /\ checked_files_deduped' = <<>>
  /\ stats' = Stats0
  /\ result' = Running
  /\ UNCHANGED <<codec, walker, now, disk, state_dir>>

NextRerun ==
  \/ LoadState \/ Walk \/ HashTask \/ OtherProcessWrites \/ Collect
  \/ Update \/ StartNextRun

SpecRerun == InitRerun /\ [][NextRerun]_vars

\* ------------------------------------------- the verify rules on any list
\* the longest outcome list the rules are evaluated on
PolicyLen == 3

\* the outcomes the i-th place of a list can hold: any classification and
\* any digests (a Modified outcome has two different ones)
PolicyRecord(i, d) == FileInfo(i, d, 1, LenOf(d), PrevSecs * SubSec, PrevSecs * SubSec)
PolicyOutcomes(i) ==
  {New(PolicyRecord(i, d)) : d \in Digests}
  \cup {Unmodifed(PolicyRecord(i, d)) : d \in Digests}
  \cup {Missing(PolicyRecord(i, d)) : d \in Digests}
  \cup {Modified(PolicyRecord(i, de[1]), PolicyRecord(i, de[2])) :
          de \in {x \in Digests \X Digests : x[1] # x[2]}}
RECURSIVE PolicyListsOfLen(_)
PolicyListsOfLen(n) ==
  IF n = 0 THEN {<<>>}
  ELSE {Append(l, f) : l \in PolicyListsOfLen(n - 1), f \in PolicyOutcomes(n)}
PolicyLists == UNION {PolicyListsOfLen(n) : n \in 0..PolicyLen}

\* a verify run that has collected and sorted its outcomes
InitPolicy ==
  /\ opts \in {o \in Opts : o.cmd = "Verify" /\ o.threads = 1}
  /\ disk = [p \in Paths |-> NoFile]
  /\ state_dir = [n \in {} |-> Directory]
  /\ pc = "mode"
  /\ old_states_by_filename = [p \in {} |-> NoFile]
  /\ walked = 0
  /\ files_checked = 0
  /\ tasks = <<>>
  /\ channel = <<>>
  /\ checked_files \in PolicyLists
  /\ checked_files_deduped = <<>>
  /\ stats = Stats0
  /\ result = Running
  /\ codec = CodecIdle
  /\ invocation = FirstRun
  /\ now = NotYet
  /\ walker = Loop

NextPolicy == Verify

SpecPolicy == InitPolicy /\ [][NextPolicy]_vars

\* ------------------------------------------------ snapshot lines as text
\* A line is a sequence of characters. Times are a whole number of seconds
\* and a sub-second part of FracDigits decimal digits (9 in the source:
\* nanoseconds); the seconds of a SystemTime are a signed number of the
\* width of u64.
FracDigits == 2
I64Max      == 2 ^ (U64Bits - 1) - 1
NanosPerSec == 10 ^ FracDigits

\* file_info.rs:27: the digest has 32 bytes, written as 64 hex characters
DigestBytes == 32
HexLen      == 2 * DigestBytes

\* the digits "{}" writes a number with and str::parse::<u64> accepts
AsciiDigits == <<"0", "1", "2", "3", "4", "5", "6", "7", "8", "9">>

\* \d of the regular expression is the Unicode class: the ASCII digits and
\* every other character of category Nd, of which these three are taken
\* (ARABIC-INDIC DIGIT TWO, DEVANAGARI DIGIT ONE, FULLWIDTH DIGIT FIVE)
DigitChars == AsciiDigits \o <<"<U+0662>", "<U+0967>", "<U+FF15>">>

\* [a-f0-9] of the regular expression
HexChars   == AsciiDigits \o <<"a", "b", "c", "d", "e", "f">>
IsDigit(c) == \E i \in 1..Len(DigitChars) : DigitChars[i] = c
IsHex(c)   == \E i \in 1..Len(HexChars) : HexChars[i] = c
IsAsciiDigit(c) == \E i \in 1..Len(AsciiDigits) : AsciiDigits[i] = c
DigitValue(c) == (CHOOSE i \in 1..Len(HexChars) : HexChars[i] = c) - 1

\* hex::encode_to_slice and hex::decode_to_slice
HexEncode(bytes) ==
  [i \in 1..(2 * Len(bytes)) |->
     IF i % 2 = 1 THEN HexChars[(bytes[(i + 1) \div 2] \div 16) + 1]
     ELSE HexChars[(bytes[i \div 2] % 16) + 1]]
HexDecode(chars) ==
  [i \in 1..(Len(chars) \div 2) |->
     (16 * DigitValue(chars[2 * i - 1])) + DigitValue(chars[2 * i])]

\* "{}" of an unsigned integer
RECURSIVE Decimal(_)
Decimal(n) ==
  IF n < 10 THEN <<AsciiDigits[n + 1]>>
  ELSE Decimal(n \div 10) \o <<AsciiDigits[(n % 10) + 1]>>

\* "{:>09}": right-aligned, filled with zeros up to the width
RECURSIVE ZeroPad(_, _)
ZeroPad(chars, width) ==
  IF Len(chars) >= width THEN chars ELSE ZeroPad(<<"0">> \o chars, width)

\* str::parse::<u64> of a run of digits: the value, or -1 for the error of
\* a number that does not fit or of a character that is no ASCII digit
RECURSIVE ParseFrom(_, _)
ParseFrom(chars, acc) ==
  IF chars = <<>> THEN acc
  ELSE IF ~IsAsciiDigit(Head(chars)) THEN -1
  ELSE IF acc * 10 + DigitValue(Head(chars)) > U64Max THEN -1
  ELSE ParseFrom(Tail(chars), acc * 10 + DigitValue(Head(chars)))
parse_u64(chars) == ParseFrom(chars, 0)

LitMtime     == <<" ", "#", " ", "m", "t", "i", "m", "e", " ">>
LitSize      == <<" ", "s", "i", "z", "e", " ">>
LitFullyRead == <<" ", "f", "u", "l", "l", "y", "_", "r", "e", "a", "d", " ">>
LitLastSeen  == <<" ", "l", "a", "s", "t", "_", "s", "e", "e", "n", " ">>

\* the format string of file_info.rs:90, with writeln!'s line feed
FormatLine(hex, path, secs, frac, size, fully_read, last_seen) ==
  hex \o <<" ">> \o path \o LitMtime \o secs \o <<".">> \o frac \o LitSize \o size
      \o LitFullyRead \o fully_read \o LitLastSeen \o last_seen \o <<"\n">>

\* a SystemTime: seconds since the epoch and the sub-second part
Time(secs, nanos) == [secs |-> secs, nanos |-> nanos]

\* FileInfo::write, file_info.rs:86-104
FileInfo_write(fi) ==
  FormatLine(HexEncode(fi.sha256_digest), fi.rel_path,
             Decimal(fi.mtime.secs), ZeroPad(Decimal(fi.mtime.nanos), FracDigits),
             Decimal(fi.len), Decimal(fi.fully_read.secs), Decimal(fi.last_seen.secs))

CharAt(line, i) == IF i \in 1..Len(line) THEN line[i] ELSE ""
LitAt(line, pos, lit) == \A k \in 1..Len(lit) : CharAt(line, pos + k - 1) = lit[k]

RECURSIVE DigitsEnd(_, _)
\* \d+ from pos on: the index of the last digit of the run (pos - 1: none)
DigitsEnd(line, pos) ==
  IF IsDigit(CharAt(line, pos)) THEN DigitsEnd(line, pos + 1) ELSE pos - 1

\* the value v, given to F
Bind(v, F(_)) == CHOOSE r \in {F(x) : x \in {v}} : TRUE

\* the part of the regular expression after the path, matched from pos on:
\* " # mtime (\d+)\.(\d+) size (\d+) fully_read (\d+)(?:\.\d+)? last_seen (\d+)"
\* (the optional fraction after last_seen ends the expression and matches
\* or not without any effect on the groups; every digit run is followed by a character that is no digit, so the
\* greedy run is the only one that can match). e1..e5 are the ends of the
\* five captured digit runs, f4 the end of the optional fraction.
TailCaptures(line, pos) ==
  IF ~LitAt(line, pos, LitMtime) THEN [matched |-> FALSE]
  ELSE
    Bind(DigitsEnd(line, pos + Len(LitMtime)), LAMBDA e1 :
    Bind(DigitsEnd(line, e1 + 2), LAMBDA e2 :
    Bind(DigitsEnd(line, e2 + 1 + Len(LitSize)), LAMBDA e3 :
    Bind(DigitsEnd(line, e3 + 1 + Len(LitFullyRead)), LAMBDA e4 :
    Bind(IF CharAt(line, e4 + 1) = "." /\ DigitsEnd(line, e4 + 2) >= e4 + 2
         THEN DigitsEnd(line, e4 + 2) ELSE e4, LAMBDA f4 :
    Bind(DigitsEnd(line, f4 + 1 + Len(LitLastSeen)), LAMBDA e5 :
      [matched |-> /\ e1 >= pos + Len(LitMtime)
                   /\ CharAt(line, e1 + 1) = "." /\ e2 >= e1 + 2
                   /\ LitAt(line, e2 + 1, LitSize) /\ e3 >= e2 + 1 + Len(LitSize)
                   /\ LitAt(line, e3 + 1, LitFullyRead)
                   /\ e4 >= e3 + 1 + Len(LitFullyRead)
                   /\ LitAt(line, f4 + 1, LitLastSeen)
                   /\ e5 >= f4 + 1 + Len(LitLastSeen),
       mtime_s    |-> <<pos + Len(LitMtime), e1>>,
       mtime_ns   |-> <<e1 + 2, e2>>,
       size       |-> <<e2 + 1 + Len(LitSize), e3>>,
       fully_read |-> <<e3 + 1 + Len(LitFullyRead), e4>>,
       last_seen  |-> <<f4 + 1 + Len(LitLastSeen), e5>>]))))))

\* "([a-f0-9]{64}) /?" matched at s: the index the path starts at (0: no
\* match). The slash is optional and the first character of the path is no
\* slash, so a slash after the blank is always consumed.
PathStart(line, s) ==
  LET after == s + HexLen + 1
      a     == IF CharAt(line, after) = "/" THEN after + 1 ELSE after
  IN IF /\ \A k \in 0..(HexLen - 1) : IsHex(CharAt(line, s + k))
        /\ CharAt(line, s + HexLen) = " "
        /\ a <= Len(line)
        /\ line[a] # "/"
     THEN a ELSE 0

\* "([^/].*)" from a on: the path is greedy, so it ends at the last index
\* from which the rest matches ("." matches no line feed); 0: no match
PathEnd(line, a) ==
  LET ends == {b \in a..Len(line) :
                 /\ CharAt(line, b + 1) = " "
                 /\ TailCaptures(line, b + 1).matched
                 /\ \A k \in (a + 1)..b : line[k] # "\n"}
  IN IF ends = {} THEN 0 ELSE CHOOSE b \in ends : \A o \in ends : o <= b

\* the expression is not anchored: the match is the leftmost one (0: no match)
MatchStart(line) ==
  LET starts == {s \in 1..Len(line) :
                   PathStart(line, s) > 0 /\ PathEnd(line, PathStart(line, s)) > 0}
  IN IF starts = {} THEN 0 ELSE CHOOSE s \in starts : \A o \in starts : s <= o

\* the groups of the match that starts at s, with the path from a to b
Groups(line, s, a, b) ==
  Bind(TailCaptures(line, b + 1), LAMBDA t :
    [matched |-> TRUE,
     sha256 |-> SubSeq(line, s, s + HexLen - 1),
     path |-> SubSeq(line, a, b),
     mtime_s |-> SubSeq(line, t.mtime_s[1], t.mtime_s[2]),
     mtime_ns |-> SubSeq(line, t.mtime_ns[1], t.mtime_ns[2]),
     size |-> SubSeq(line, t.size[1], t.size[2]),
     fully_read |-> SubSeq(line, t.fully_read[1], t.fully_read[2]),
     last_seen |-> SubSeq(line, t.last_seen[1], t.last_seen[2])])

\* Regex::captures, file_info.rs:22-24. No match: matched is FALSE.
RE_captures(line) ==
  Bind(MatchStart(line), LAMBDA s :
    IF s = 0 THEN [matched |-> FALSE]
    ELSE Bind(PathStart(line, s), LAMBDA a :
         Bind(PathEnd(line, a), LAMBDA b : Groups(line, s, a, b))))

ParseError(msg, line) == [status |-> "err", msg |-> msg, line |-> line]
Parsed(fi)            == [status |-> "ok", val |-> fi]
ParsePanic            == [status |-> "panic"]

\* FileInfo::parse, file_info.rs:19-84. overflow_checks is the build: with
\* overflow checks (debug) an overflowing u64 operation panics, without
\* them (release) it wraps. 9 - len wraps to a huge exponent and 10 to that
\* power wraps to 0. Adding to UNIX_EPOCH panics in every build when the
\* seconds do not fit a SystemTime.
FileInfo_parse(line, overflow_checks) ==
  Bind(RE_captures(line), LAMBDA m :
    IF ~m.matched THEN ParseError("invalid line", line)
    ELSE LET mtime_s    == parse_u64(m.mtime_s)
             mtime_frac == parse_u64(m.mtime_ns)
             mtime_ns   == IF Len(m.mtime_ns) > FracDigits THEN 0
                           ELSE mtime_frac * 10 ^ (FracDigits - Len(m.mtime_ns))
             size       == parse_u64(m.size)
             fully_read == parse_u64(m.fully_read)
             last_seen  == parse_u64(m.last_seen)
             nanos      == mtime_s * NanosPerSec + mtime_ns
             wrapped    == nanos % (U64Max + 1)
         IN IF mtime_s < 0 \/ mtime_frac < 0
            THEN ParseError("invalid line (couldn't parse mtime)", line)
            ELSE IF Len(m.mtime_ns) > FracDigits /\ overflow_checks THEN ParsePanic
            ELSE IF size < 0 THEN ParseError("invalid line (couldn't parse size)", line)
            ELSE IF fully_read < 0
            THEN ParseError("invalid line (couldn't parse fully_read)", line)
            ELSE IF last_seen < 0
            THEN ParseError("invalid line (couldn't parse last_seen)", line)
            ELSE IF nanos > U64Max /\ overflow_checks THEN ParsePanic
            ELSE IF fully_read > I64Max \/ last_seen > I64Max THEN ParsePanic
            ELSE Parsed([rel_path |-> m.path,
                         sha256_digest |-> HexDecode(m.sha256),
                         mtime |-> Time(wrapped \div NanosPerSec, wrapped % NanosPerSec),
                         len |-> size,
                         fully_read |-> Time(fully_read, 0),
                         last_seen |-> Time(last_seen, 0)]))

\* the records put through the codec: a plain path, a path with a
\* directory, a non-ASCII character, blanks and a '#', and a path that reads
\* like the fields of a line; mtimes up to the first second whose
\* nanoseconds do not fit u64; fully_read and last_seen in whole seconds
CodecPaths ==
  {<<"a">>,
   <<"d", "/", "<U+00E4>", " ", "#", "!">>,
   <<"b">> \o LitMtime \o <<"1", ".", "5">> \o LitSize \o <<"1">>
           \o LitFullyRead \o <<"1">> \o LitLastSeen \o <<"1">>}
CodecDigests == {[i \in 1..DigestBytes |-> 5], [i \in 1..DigestBytes |-> 16 * 10 + (i % 16)]}
CodecRecords ==
  {[rel_path |-> p, sha256_digest |-> d, mtime |-> Time(s, n), len |-> l,
    fully_read |-> Time(U64Max \div NanosPerSec, 0), last_seen |-> Time(ls, 0)] :
     p \in CodecPaths, d \in CodecDigests,
     s \in {0, U64Max \div NanosPerSec - 1, U64Max \div NanosPerSec,
            U64Max \div NanosPerSec + 1},
     n \in {0, 5, NanosPerSec - 1}, l \in {0, U64Max},
     ls \in {U64Max \div NanosPerSec, I64Max}}

\* lines that are not what write produces for the record
Corruptions ==
  {"text before digest", "hex before digest", "leading slash", "short fraction",
   "long fraction", "size too large", "cut off", "digest not hex",
   "other digit in mtime", "other digit in last_seen", "other digit in fraction"}
Corrupted(fi, kind) ==
  LET line == FileInfo_write(fi)
      hex  == HexEncode(fi.sha256_digest)
      secs == Decimal(fi.mtime.secs)
      frac == ZeroPad(Decimal(fi.mtime.nanos), FracDigits)
      size == Decimal(fi.len)
      fr   == Decimal(fi.fully_read.secs)
      ls   == Decimal(fi.last_seen.secs)
  IN CASE kind = "text before digest" -> <<"x", " ">> \o line
       [] kind = "hex before digest"  -> <<"a">> \o line
       [] kind = "leading slash"  -> FormatLine(hex, <<"/">> \o fi.rel_path, secs, frac, size, fr, ls)
       [] kind = "short fraction" -> FormatLine(hex, fi.rel_path, secs, Tail(frac), size, fr, ls)
       [] kind = "long fraction"  -> FormatLine(hex, fi.rel_path, secs, frac \o <<"0">>, size, fr, ls)
       [] kind = "size too large" ->
            FormatLine(hex, fi.rel_path, secs, frac, Decimal(U64Max) \o <<"0">>, fr, ls)
       [] kind = "cut off"        -> SubSeq(line, 1, Len(line) - Len(ls) - 2)
       [] kind = "digest not hex" -> <<"G">> \o Tail(line)
       [] kind = "other digit in mtime" ->
            FormatLine(hex, fi.rel_path, <<DigitChars[Len(DigitChars)]>>, frac, size, fr, ls)
       [] kind = "other digit in last_seen" ->
            FormatLine(hex, fi.rel_path, secs, frac, size, fr, ls \o <<DigitChars[Len(AsciiDigits) + 1]>>)
       [] kind = "other digit in fraction" ->
            FormatLine(hex, fi.rel_path, secs, frac, size,
                       fr \o <<".", DigitChars[Len(AsciiDigits) + 2]>>, ls)

InitCodec ==
  /\ opts = CHOOSE o \in Opts : TRUE
  /\ disk = [p \in Paths |-> NoFile]
  /\ state_dir = [n \in {} |-> Directory]
  /\ pc = "codec"
  /\ old_states_by_filename = [p \in {} |-> NoFile]
  /\ walked = 0
  /\ files_checked = 0
  /\ tasks = <<>>
  /\ channel = <<>>
  /\ checked_files = <<>>
  /\ checked_files_deduped = <<>>
  /\ stats = Stats0
  /\ result = Running
  /\ \E fi \in CodecRecords :
       codec = [pc |-> "record", fi |-> fi, line |-> <<>>, corruption |-> "none",
                out |-> [status |-> "none"], line2 |-> <<>>]
  /\ invocation = FirstRun
  /\ now = NotYet
  /\ walker = Loop

run_vars == <<opts, disk, state_dir, pc, old_states_by_filename, walked, files_checked,
              tasks, channel, checked_files, checked_files_deduped, stats, result,
              invocation, now, walker>>

\* the record is written as a line
Encode ==
  /\ codec.pc = "record"
  /\ codec' = [codec EXCEPT !.pc = "line", !.line = FileInfo_write(codec.fi)]
  /\ UNCHANGED run_vars

\* another line is put in the place of the written one
Corrupt ==
  /\ codec.pc = "line"
  /\ codec.corruption = "none"
  /\ \E kind \in Corruptions :
       codec' = [codec EXCEPT !.corruption = kind, !.line = Corrupted(codec.fi, kind)]
  /\ UNCHANGED run_vars

\* the line is parsed, by a build with or without overflow checks
Decode ==
  /\ codec.pc = "line"
  /\ \E overflow_checks \in BOOLEAN :
       codec' = [codec EXCEPT !.pc = "parsed",
                              !.out = FileInfo_parse(codec.line, overflow_checks)]
  /\ UNCHANGED run_vars

\* the parsed record is written again
Reencode ==
  /\ codec.pc = "parsed"
  /\ codec.out.status = "ok"
  /\ codec' = [codec EXCEPT !.pc = "rewritten", !.line2 = FileInfo_write(codec.out.val)]
  /\ UNCHANGED run_vars

NextCodec == Encode \/ Corrupt \/ Decode \/ Reencode

SpecCodec == InitCodec /\ [][NextCodec]_vars

\* ---------------------------------------------------------------- claims
\* the snapshot the run loaded (the files of second PrevSecs and before)
Loaded ==
  read_state(opts.state_dir,
             [n \in {m \in DOMAIN state_dir : m.ts <= PrevSecs} |-> state_dir[n]], FALSE).val
Candidates == {p \in Paths : disk[p].exists}
Tracked    == DOMAIN Loaded

\* the run got past collection: no stat or read failure was received
Collected ==
  /\ pc \in {"mode", "done"}
  /\ result.status \in {"err", "panic"} => result.err[1] \notin {"stat", "read", "panic"}

OutcomesAt(p) ==
  {i \in 1..Len(checked_files) :
     IF checked_files[i].tag = "Modified"
     THEN p \in {checked_files[i].current.rel_path, checked_files[i].previous.rel_path}
     ELSE checked_files[i].fi.rel_path = p}
TagAt(p) == checked_files[CHOOSE i \in OutcomesAt(p) : TRUE].tag

\* the tracked candidates whose size and mtime equal the stored record's
SameMetadata ==
  {p \in Candidates \cap Tracked :
     Loaded[p].mtime = disk[p].mtime /\ Loaded[p].len = LenOf(disk[p].content)}
Skipped == IF opts.cmd = "Update" /\ ~opts.read_all_files THEN SameMetadata ELSE {}
Hashed  == Candidates \ Skipped

\* t is a reading of the clock of this run, and not a time of the loaded
\* snapshot, whose records were read and seen in second PrevSecs
ThisRun(t) == t \in ClockReadings

\* the seconds the readings of this run are written with
ReadingSeconds == {SecondOf(t) : t \in ClockReadings}

\* fi is a record a successful full read of p produces in this run: digest,
\* length and mtime of the file, and two readings of the clock
IsFresh(fi, p) ==
  /\ fi.rel_path = p
  /\ fi.sha256_digest = Sha256(disk[p].content)
  /\ fi.mtime = disk[p].mtime
  /\ fi.len = LenOf(disk[p].content)
  /\ ThisRun(fi.fully_read)
  /\ ThisRun(fi.last_seen)

\* C1: in a run without stat/read failures the collected outcome list holds
\* exactly one outcome per candidate path (New, Unchanged or Modified, so
\* their number is N) and one per snapshot entry (Unchanged or Modified when
\* the path is a candidate, Missing when it is not); New is produced exactly
\* for the candidates that are not in the snapshot; no path has two outcomes.
C1_ClassificationComplete ==
  Collected =>
    /\ \A p \in Candidates :
         /\ Cardinality(OutcomesAt(p)) = 1
         /\ TagAt(p) \in {"New", "Unmodifed", "Modified"}
         /\ TagAt(p) = "New" <=> p \notin Tracked
    /\ CountTag(checked_files, {"New", "Unmodifed", "Modified"}) = Cardinality(Candidates)
    /\ \A p \in Tracked :
         /\ Cardinality(OutcomesAt(p)) = 1
         /\ IF p \in Candidates THEN TagAt(p) \in {"Unmodifed", "Modified"}
            ELSE TagAt(p) = "Missing"
    /\ Len(checked_files) = Cardinality(Candidates \cup Tracked)
    /\ \A p \in Paths \ (Candidates \cup Tracked) : OutcomesAt(p) = {}

C1_Witness ==
  /\ pc = "mode"
  /\ Len(checked_files) = NumPaths
  /\ CountTag(checked_files, {"Missing"}) = 1
  /\ CountTag(checked_files, {"New"}) = 1

\* C2: a tracked candidate whose size and mtime equal the stored record's,
\* with full read not forced, is never given to a hash task and never read
\* (files_read and bytes_read count the other candidates only); its outcome is
\* Unchanged with the stored digest, size, mtime and fully_read and the new
\* last_seen; and it is counted in files_checked.
C2_MetadataSkip ==
  LET SumLen(S) == LET RECURSIVE Sum(_)
                       Sum(T) == IF T = {} THEN 0
                                 ELSE LET x == CHOOSE x \in T : TRUE
                                      IN LenOf(disk[x].content) + Sum(T \ {x})
                   IN Sum(S)
  IN /\ pc = "walk" =>
          /\ walker.at = "needs_checking" => walker.fi.rel_path \notin Skipped
          /\ walker.at \in {"unchanged", "counted", "seen"} => walker.fi.rel_path \in Skipped
          /\ \A i \in 1..Len(tasks) : TaskPath(tasks[i]) \notin Skipped
          /\ \A i \in 1..Len(channel) :
               channel[i].ok =>
                 (IF channel[i].val.tag = "Modified" THEN channel[i].val.current.rel_path
                  ELSE channel[i].val.fi.rel_path) \notin Skipped
     /\ Collected =>
          /\ \A p \in Skipped :
               \E i \in 1..Len(checked_files) :
                 /\ checked_files[i].tag = "Unmodifed"
                 /\ ThisRun(checked_files[i].fi.last_seen)
                 /\ checked_files[i].fi =
                      [rel_path |-> p,
                       sha256_digest |-> Loaded[p].sha256_digest,
                       mtime |-> Loaded[p].mtime,
                       len |-> Loaded[p].len,
                       fully_read |-> Loaded[p].fully_read,
                       last_seen |-> checked_files[i].fi.last_seen]
          /\ stats.files_read = Cardinality(Hashed)
          /\ stats.bytes_read = SumLen(Hashed)
          /\ stats.files_checked = Cardinality(Candidates \cup Tracked)

\* a skipped file whose content is not the recorded one
C2_Witness ==
  /\ pc = "done"
  /\ Collected
  /\ \E p \in Skipped : Sha256(disk[p].content) # Loaded[p].sha256_digest
  /\ Hashed # {}

\* C3: a tracked candidate that is hashed is Unchanged exactly when the new
\* digest equals the stored one and Modified, with the stored record as
\* previous and the fresh record as current, exactly when it differs; either
\* way it is counted in files_read.
C3_HashedOutcome ==
  Collected =>
    /\ \A p \in Hashed \cap Tracked :
         \E i \in 1..Len(checked_files) :
           /\ Sha256(disk[p].content) = Loaded[p].sha256_digest
                => /\ checked_files[i].tag = "Unmodifed"
                   /\ IsFresh(checked_files[i].fi, p)
           /\ Sha256(disk[p].content) # Loaded[p].sha256_digest
                => /\ checked_files[i].tag = "Modified"
                   /\ checked_files[i].previous = Loaded[p]
                   /\ IsFresh(checked_files[i].current, p)
    /\ stats.files_read >= Cardinality(Hashed \cap Tracked)
    /\ stats.files_read - stats.files_new = Cardinality(Hashed \cap Tracked)
    /\ stats.files_modified =
         Cardinality({p \in Hashed \cap Tracked :
                        Sha256(disk[p].content) # Loaded[p].sha256_digest})

C3_Witness ==
  /\ pc = "mode"
  /\ \E p, q \in Hashed \cap Tracked :
       /\ Sha256(disk[p].content) = Loaded[p].sha256_digest
       /\ Loaded[p].mtime # disk[p].mtime
       /\ Sha256(disk[q].content) # Loaded[q].sha256_digest

\* the update run has deduped its outcome list
Deduped == pc = "done" /\ opts.cmd = "Update" /\ Collected

\* the digests of the New, Unchanged and Modified-current records of this run
PresentSet ==
  {d \in Digests :
     \E i \in 1..Len(checked_files) :
       \/ checked_files[i].tag \in {"New", "Unmodifed"} /\ checked_files[i].fi.sha256_digest = d
       \/ checked_files[i].tag = "Modified" /\ checked_files[i].current.sha256_digest = d}

DedupedAt(p) ==
  {j \in 1..Len(checked_files_deduped) :
     IF checked_files_deduped[j].tag = "Modified"
     THEN checked_files_deduped[j].current.rel_path = p
     ELSE checked_files_deduped[j].fi.rel_path = p}

\* C4: in update mode a Missing outcome is removed from the outcome list, and
\* counted as duplicate-removed, exactly when its digest is in the present-set;
\* otherwise it stays as it is. Digests of Missing records are not in the
\* present-set, so two missing files that share a digest found nowhere on disk
\* both stay Missing.
C4_MissingDedup ==
  Deduped =>
    /\ \A i \in 1..Len(checked_files) :
         checked_files[i].tag = "Missing" =>
           IF checked_files[i].fi.sha256_digest \in PresentSet
           THEN DedupedAt(checked_files[i].fi.rel_path) = {}
           ELSE \E j \in 1..Len(checked_files_deduped) :
                  checked_files_deduped[j] = checked_files[i]
    /\ stats.files_duplicate_removed >=
         Cardinality({i \in 1..Len(checked_files) :
                        /\ checked_files[i].tag = "Missing"
                        /\ checked_files[i].fi.sha256_digest \in PresentSet})
    /\ stats.files_duplicate_removed =
         Len(checked_files) - Len(checked_files_deduped)
         + CountTag(checked_files, {"Modified"}) - CountTag(checked_files_deduped, {"Modified"})

\* a missing file whose content is found under the other path
C4_Witness ==
  /\ Deduped
  /\ \E i \in 1..Len(checked_files) :
       /\ checked_files[i].tag = "Missing"
       /\ checked_files[i].fi.sha256_digest \in PresentSet
       /\ DedupedAt(checked_files[i].fi.rel_path) = {}
  /\ stats.files_duplicate_removed = 1

\* C5: in update mode a Modified outcome is replaced by a New outcome with its
\* current record exactly when its previous digest is in the present-set;
\* otherwise it is kept as Modified with both records.
C5_ModifiedDedup ==
  Deduped =>
    \A i \in 1..Len(checked_files) :
      checked_files[i].tag = "Modified" =>
        /\ Cardinality(DedupedAt(checked_files[i].current.rel_path)) = 1
        /\ \A j \in DedupedAt(checked_files[i].current.rel_path) :
             checked_files_deduped[j] =
               IF checked_files[i].previous.sha256_digest \in PresentSet
               THEN [tag |-> "New", fi |-> checked_files[i].current]
               ELSE checked_files[i]

\* one Modified outcome is reclassified and the other is kept
C5_Witness ==
  /\ Deduped
  /\ CountTag(checked_files, {"Modified"}) = 2
  /\ CountTag(checked_files_deduped, {"Modified"}) = 1
  /\ CountTag(checked_files_deduped, {"New"}) = 1

\* C6: dedup is idempotent: applied to its own output it changes nothing.
C6_DedupIdempotent ==
  Deduped =>
    /\ dedup(checked_files_deduped) = checked_files_deduped
    /\ DuplicatesRemoved(checked_files_deduped) = 0

\* the first pass removed an outcome and left a Modified one to look at again
C6_Witness ==
  /\ Deduped
  /\ Len(checked_files_deduped) < Len(checked_files)
  /\ CountTag(checked_files_deduped, {"Modified"}) = 1

\* the verify run has evaluated the rule of the two flags
Verified(ignore_missing, only_presence) ==
  /\ pc = "done"
  /\ opts.cmd = "Verify"
  /\ Collected
  /\ opts.ignore_missing = ignore_missing
  /\ opts.only_presence = only_presence

\* the digests of the Unchanged, Missing and Modified-previous records
ArchivedSet ==
  {d \in Digests :
     \E i \in 1..Len(checked_files) :
       \/ checked_files[i].tag \in {"Unmodifed", "Missing"} /\ checked_files[i].fi.sha256_digest = d
       \/ checked_files[i].tag = "Modified" /\ checked_files[i].previous.sha256_digest = d}

\* the digests of the New and Modified-current records
NewlyFoundSet ==
  {d \in Digests :
     \E i \in 1..Len(checked_files) :
       \/ checked_files[i].tag = "New" /\ checked_files[i].fi.sha256_digest = d
       \/ checked_files[i].tag = "Modified" /\ checked_files[i].current.sha256_digest = d}

\* C7: verify with ignore-missing=false and presence-only=false fails exactly
\* when there is a Missing, Modified or New outcome; it passes exactly when
\* every archived file is on disk at its path with the archived content and
\* no other file is on disk.
C7_VerifyStrict ==
  Verified(FALSE, FALSE) =>
    /\ result.status = "err" <=>
         \E i \in 1..Len(checked_files) : checked_files[i].tag \in {"Missing", "Modified", "New"}
    /\ result.status = "ok" <=>
         /\ Candidates = Tracked
         /\ \A p \in Tracked : Sha256(disk[p].content) = Loaded[p].sha256_digest

\* it passes although the metadata of an archived file has changed
C7_Witness ==
  /\ Verified(FALSE, FALSE)
  /\ result.status = "ok"
  /\ Tracked = Paths
  /\ \E p \in Tracked : disk[p].mtime # Loaded[p].mtime

\* C8: verify with ignore-missing=true and presence-only=false fails exactly
\* when there is a Modified outcome; New and Missing outcomes never fail it.
C8_VerifyIgnoreMissing ==
  Verified(TRUE, FALSE) =>
    (result.status = "err" <=>
       \E i \in 1..Len(checked_files) : checked_files[i].tag = "Modified")

C8_Witness ==
  /\ Verified(TRUE, FALSE)
  /\ result.status = "ok"
  /\ CountTag(checked_files, {"New"}) = 1
  /\ CountTag(checked_files, {"Missing"}) = 1

\* C9: verify with ignore-missing=true and presence-only=true fails exactly
\* when the digest of a New record or the current digest of a Modified
\* outcome is not in the archived digest set.
C9_VerifyPresence ==
  Verified(TRUE, TRUE) =>
    (result.status = "err" <=> ~(NewlyFoundSet \subseteq ArchivedSet))

\* a file at a new path whose digest is archived under a missing path passes
C9_Witness ==
  /\ Verified(TRUE, TRUE)
  /\ result.status = "ok"
  /\ \E i, j \in 1..Len(checked_files) :
       /\ checked_files[i].tag = "New"
       /\ checked_files[j].tag = "Missing"
       /\ checked_files[i].fi.sha256_digest = checked_files[j].fi.sha256_digest

\* C10: verify with ignore-missing=false and presence-only=true fails exactly
\* when a found digest (New or Modified-current) is not archived or an
\* archived digest is not the digest of any file found in this run.
C10_VerifyTwoWay ==
  Verified(FALSE, TRUE) =>
    (result.status = "err" <=>
       \/ ~(NewlyFoundSet \subseteq ArchivedSet)
       \/ ~(ArchivedSet \subseteq PresentSet))

\* every file found is archived, and an archived digest is found nowhere
C10_Witness ==
  /\ Verified(FALSE, TRUE)
  /\ result.status = "err"
  /\ NewlyFoundSet \subseteq ArchivedSet
  /\ CountTag(checked_files, {"Missing"}) = 1
  /\ CountTag(checked_files, {"Unmodifed"}) = 1

\* ------------------------------------------------------ claims C11 - C20
\* the walk is in the arm `at` of the match, with the record of p
InArm(p, at) == walker.at = at /\ walker.fi.rel_path = p

\* p was given to a hash task: the walk is in the arm that spawns it, the
\* task is pending, or its result was sent
Dispatched(p) ==
  \/ InArm(p, "needs_checking")
  \/ \E i \in 1..Len(tasks) : TaskPath(tasks[i]) = p
  \/ \E i \in 1..Len(channel) :
       IF channel[i].ok
       THEN p = (IF channel[i].val.tag = "Modified" THEN channel[i].val.current.rel_path
                 ELSE channel[i].val.fi.rel_path)
       ELSE channel[i].err = <<"read", p>>

\* reading the metadata of p failed in the walk: the walk is in the arm that
\* sends the failure, or the failure was sent
StatFailed(p) ==
  \/ InArm(p, "failed")
  \/ \E i \in 1..Len(channel) : ~channel[i].ok /\ channel[i].err = <<"stat", p>>

\* C11 as stated: in verify mode every candidate file the walk has yielded is
\* dispatched to a hash task, and no outcome comes from the metadata-skip path.
C11_Original ==
  (opts.cmd = "Verify" /\ pc = "walk") =>
    /\ checked_files = <<>>
    /\ walker.at \notin {"unchanged", "counted", "seen"}
    /\ \A p \in Candidates : p <= walked => Dispatched(p)

\* C11 (amended): in verify mode every candidate the walk has yielded is
\* dispatched to a hash task unless it is tracked and reading its metadata
\* failed (then a stat failure is sent and no task is spawned); no outcome
\* ever comes from the metadata-skip path: every candidate of a collected run
\* was read and every Unchanged outcome carries a record read in this run.
C11_VerifyForcesFullRead ==
  opts.cmd = "Verify" =>
    /\ pc = "walk" =>
         /\ checked_files = <<>>
         /\ walker.at \notin {"unchanged", "counted", "seen"}
         /\ \A p \in Candidates :
              p <= walked =>
                /\ Dispatched(p) \/ (p \in Tracked /\ StatFailed(p))
                /\ ~(Dispatched(p) /\ StatFailed(p))
    /\ Collected =>
         /\ stats.files_read = Cardinality(Candidates)
         /\ \A i \in 1..Len(checked_files) :
              checked_files[i].tag = "Unmodifed" => ThisRun(checked_files[i].fi.fully_read)

\* a tracked file with unchanged size and mtime waits in the task queue
C11_Witness ==
  /\ opts.cmd = "Verify"
  /\ pc = "walk"
  /\ \E p \in SameMetadata : \E i \in 1..Len(tasks) : TaskPath(tasks[i]) = p

\* C12: a verify run is read-only: no step of it creates, changes or deletes
\* a file of the state directory, so the next run loads the same snapshot.
C12_VerifyReadOnly ==
  [][opts.cmd = "Verify" =>
       /\ state_dir' = state_dir
       /\ \A overflow_checks \in BOOLEAN :
            read_state(opts.state_dir, state_dir', overflow_checks)
              = read_state(opts.state_dir, state_dir, overflow_checks)]_vars

\* a verify run has given its verdict on a tree with a changed and a missing
\* file, and the state directory holds the snapshot alone
C12_Witness ==
  /\ opts.cmd = "Verify"
  /\ pc = "done"
  /\ Collected
  /\ \E i \in 1..Len(checked_files) : checked_files[i].tag = "Modified"
  /\ \E i \in 1..Len(checked_files) : checked_files[i].tag = "Missing"
  /\ DOMAIN state_dir = {StateName(PrevSecs)}

\* the failures sent on the channel so far
ChannelFailures == {channel[i].err : i \in {k \in 1..Len(channel) : ~channel[k].ok}}

\* C19: when a stat or read failure was sent for at least one candidate, the
\* step that collects the outcomes ends the run with that error: the run
\* never reaches the mode arm, so an update writes no file into the state
\* directory and a verify gives no passing verdict; nothing happens after.
C19_FailureFailsRun ==
  [][/\ (pc = "walk" /\ pc' # "walk" /\ ChannelFailures # {}) =>
          /\ pc' = "done"
          /\ result'.status = "err"
          /\ result'.err \in ChannelFailures
          /\ state_dir' = state_dir
     /\ (pc = "done" /\ result.status = "err" /\ result.err[1] \in {"stat", "read"}) =>
          /\ state_dir' = state_dir
          /\ result' = result]_vars

\* a run with a failed read has ended with the error and the state
\* directory holds what it held before the run
C19_Witness ==
  /\ pc = "done"
  /\ result.status = "err"
  /\ result.err[1] = "read"
  /\ Candidates \cap Tracked # {}
  /\ DOMAIN state_dir = {StateName(PrevSecs)}

\* what the outcome of path p has to be, from the tree, the snapshot and the
\* mode alone
ExpectedOutcome(p) ==
  IF p \notin Candidates THEN [path |-> p, tag |-> "Missing", digests |-> <<Loaded[p].sha256_digest>>]
  ELSE IF p \notin Tracked THEN [path |-> p, tag |-> "New", digests |-> <<Sha256(disk[p].content)>>]
  ELSE IF p \in Skipped \/ Sha256(disk[p].content) = Loaded[p].sha256_digest
  THEN [path |-> p, tag |-> "Unmodifed", digests |-> <<Loaded[p].sha256_digest>>]
  ELSE [path |-> p, tag |-> "Modified",
        digests |-> <<Loaded[p].sha256_digest, Sha256(disk[p].content)>>]

\* path, classification and digests of an outcome
Outline(f) ==
  IF f.tag = "Modified"
  THEN [path |-> f.current.rel_path, tag |-> f.tag,
        digests |-> <<f.previous.sha256_digest, f.current.sha256_digest>>]
  ELSE [path |-> f.fi.rel_path, tag |-> f.tag, digests |-> <<f.fi.sha256_digest>>]

\* C20: for a given tree and snapshot the sorted outcome list (paths,
\* classifications, digests) is one list, whatever the number of workers and
\* the order the tasks finished in: it is in ascending path order (a Modified
\* outcome by the path of its current record), one outcome per path, and each
\* outcome is the one the tree and the snapshot determine.
C20_SortedDeterministic ==
  (Collected /\ pc = "mode") =>
    LET paths == SeqOfSet(Candidates \cup Tracked)
    IN /\ Len(checked_files) = Len(paths)
       /\ \A i \in 1..Len(checked_files) :
            /\ SortKey(checked_files[i]) = paths[i]
            /\ Outline(checked_files[i]) = ExpectedOutcome(paths[i])
       /\ \A i \in 1..(Len(checked_files) - 1) :
            SortKey(checked_files[i]) < SortKey(checked_files[i + 1])

\* two workers and two hashed files, whose tasks finish in either order
C20_Witness ==
  /\ pc = "mode"
  /\ opts.threads = MaxThreads
  /\ Cardinality(Hashed) >= 2
  /\ Len(checked_files) = NumPaths
  /\ stats.files_read = NumPaths

\* the .state children of the state directory and the lexically-last of them
StateChildren == {n \in DOMAIN state_dir : n.ext = "state"}
LastStateChild == CHOOSE n \in StateChildren : \A o \in StateChildren : o.ts <= n.ts

\* the records of a snapshot file, by path
RecordsOf(lines) ==
  [p \in {lines[i].rel_path : i \in 1..Len(lines)} |->
     parse(lines[CHOOSE i \in 1..Len(lines) : lines[i].rel_path = p])]

\* C15: the load looks at the immediate children of the state directory
\* whose name ends in .state and at nothing else: with no such child it
\* returns the empty mapping without error, and when the lexically-last such
\* child is a file it returns exactly the records of that file, never those
\* of an older .state file or of a .modified or .missing file.
C15_LoadLastSnapshot ==
  [][pc = "load" =>
       IF StateChildren = {}
       THEN /\ pc' = "walk"
            /\ result' = Running
            /\ old_states_by_filename' = [p \in {} |-> NoFile]
       ELSE ~state_dir[LastStateChild].is_dir =>
              /\ pc' = "walk"
              /\ result' = Running
              /\ old_states_by_filename' = RecordsOf(state_dir[LastStateChild].lines)]_vars

\* the local time, to the second, the files the run has written are named
\* after
RunSecond == now

\* C16: snapshot generations are append-only: no step of an update run
\* changes or removes a file the state directory already holds, and a write
\* whose .state, .modified or .missing name exists already fails.
C16_AppendOnly ==
  [][/\ \A n \in DOMAIN state_dir :
          n \in DOMAIN state_dir' /\ state_dir'[n] = state_dir[n]
     /\ (/\ pc = "mode"
         /\ opts.cmd = "Update"
         /\ {StateName(RunSecond'), ModifiedName(RunSecond'), MissingName(RunSecond')}
              \cap DOMAIN state_dir # {}) =>
          result'.status = "err"]_vars

\* an update run found a file missing and its write failed on the .missing
\* file of its second, which still holds its lines
C16_Witness ==
  /\ opts.cmd = "Update"
  /\ pc = "done"
  /\ result = Failure(<<"write_state">>)
  /\ CountTag(checked_files_deduped, {"Missing"}) > 0
  /\ MissingName(RunSecond) \in DOMAIN state_dir
  /\ state_dir[MissingName(RunSecond)].lines # <<>>
  /\ StateName(PrevSecs) \in DOMAIN state_dir

\* the update run has written its snapshot
Written == opts.cmd = "Update" /\ pc = "done" /\ result.status = "ok"

\* C17: after a successful write the .modified file of the run exists exactly
\* when the written list holds a Modified outcome, and the .missing file
\* exactly when it holds a Missing outcome.
C17_LogsExistIffNeeded ==
  Written =>
    /\ ModifiedName(RunSecond) \in DOMAIN state_dir
         <=> CountTag(checked_files_deduped, {"Modified"}) > 0
    /\ MissingName(RunSecond) \in DOMAIN state_dir
         <=> CountTag(checked_files_deduped, {"Missing"}) > 0
    /\ StateName(RunSecond) \in DOMAIN state_dir

\* a written run with a Modified outcome and no Missing one
C17_Witness ==
  /\ Written
  /\ CountTag(checked_files_deduped, {"Modified"}) > 0
  /\ CountTag(checked_files_deduped, {"Missing"}) = 0
  /\ CountTag(checked_files_deduped, {"Unmodifed", "New"}) > 0

\* the lines of a file of the run (none when the file does not exist)
LinesOf(name) == IF name \in DOMAIN state_dir THEN state_dir[name].lines ELSE <<>>

\* the lines are exactly the encoded records, one line per record
HoldsExactly(lines, records) ==
  /\ Len(lines) = Cardinality(records)
  /\ {lines[i] : i \in 1..Len(lines)} = {write(r) : r \in records}

DedupedWith(tags) ==
  {checked_files_deduped[i] :
     i \in {k \in 1..Len(checked_files_deduped) : checked_files_deduped[k].tag \in tags}}

\* C18: after a successful write of the deduplicated list the .state file
\* holds exactly one record for each New and Unchanged outcome and the
\* current record of each Modified outcome, and none for a Missing outcome;
\* the .modified file holds exactly the previous records of the Modified
\* outcomes and the .missing file exactly the records of the Missing ones.
C18_WrittenContents ==
  Written =>
    /\ HoldsExactly(LinesOf(StateName(RunSecond)),
                    {f.fi : f \in DedupedWith({"New", "Unmodifed"})}
                    \cup {f.current : f \in DedupedWith({"Modified"})})
    /\ Len(LinesOf(StateName(RunSecond)))
         = CountTag(checked_files_deduped, {"New", "Unmodifed", "Modified"})
    /\ HoldsExactly(LinesOf(ModifiedName(RunSecond)),
                    {f.previous : f \in DedupedWith({"Modified"})})
    /\ HoldsExactly(LinesOf(MissingName(RunSecond)),
                    {f.fi : f \in DedupedWith({"Missing"})})
    /\ \A f \in DedupedWith({"Missing"}) :
         \A i \in 1..Len(LinesOf(StateName(RunSecond))) :
           LinesOf(StateName(RunSecond))[i].rel_path # f.fi.rel_path

\* a written run with a Modified and a Missing outcome
C18_Witness ==
  /\ Written
  /\ CountTag(checked_files_deduped, {"Modified"}) > 0
  /\ CountTag(checked_files_deduped, {"Missing"}) > 0
  /\ StateName(PrevSecs - 1) \in DOMAIN state_dir

\* C13: the codec round-trips: a record with a relative path, a mtime with
\* a sub-second part and whole-second fully_read and last_seen, written as a
\* line and parsed, gives the record back, and writing the parsed record
\* gives the same line.
C13_RoundTrip ==
  (codec.pc \in {"parsed", "rewritten"} /\ codec.corruption = "none") =>
    /\ codec.out = Parsed(codec.fi)
    /\ codec.pc = "rewritten" => codec.line2 = codec.line

\* C14: decoding is total: a line that is not a line of the grammar (text
\* before the digest, a path with a leading slash, a fraction that has not
\* the full number of digits, a number that does not fit, a line cut off)
\* is answered with a ParseError that carries the line, never with a record
\* and never with an abort.
C14_DecodeTotal ==
  (codec.pc = "parsed" /\ codec.corruption # "none") =>
    /\ codec.out.status = "err"
    /\ codec.out.line = codec.line
\* ------------------------------------------------------ claims C21 - C28
\* C21: when the write of an update run fails part-way (a name of the run's
\* second exists already), no partial snapshot of the run is treated as
\* valid: a subsequent load returns what the load returned before the run,
\* the records of the last successfully written snapshot, and never the
\* contents of the .state file the failed run has left.
C21_FailedWriteInvisible ==
  [][(pc = "mode" /\ opts.cmd = "Update" /\ result'.status # "ok") =>
       \A overflow_checks \in BOOLEAN :
         read_state(opts.state_dir, state_dir', overflow_checks)
           = read_state(opts.state_dir, state_dir, overflow_checks)]_vars

\* the records of an outcome
RecordsOfOutcome(f) == IF f.tag = "Modified" THEN {f.previous, f.current} ELSE {f.fi}

\* every record held by the run: in the hands of the walk, returned to a task, sent on the channel,
\* collected, and deduped
RecordsHeld ==
  UNION ({{walker.fi} : w \in {walker} \ {Loop}}
         \cup {RecordsOfOutcome(tasks[i].result.val) :
            i \in {k \in 1..Len(tasks) : tasks[k].result.ok}}
         \cup {RecordsOfOutcome(channel[i].val) : i \in {k \in 1..Len(channel) : channel[k].ok}}
         \cup {RecordsOfOutcome(checked_files[i]) : i \in 1..Len(checked_files)}
         \cup {RecordsOfOutcome(checked_files_deduped[i]) : i \in 1..Len(checked_files_deduped)})

\* every line of the files the run has written
LinesWritten ==
  UNION {{state_dir[n].lines[i] : i \in 1..Len(state_dir[n].lines)} :
           n \in {m \in DOMAIN state_dir : m.ts = RunSecond}}

\* C22: in every record of every outcome and of every written snapshot the
\* digest comes from a completed full read of the path's bytes: a record
\* read in this run (fully_read is a reading of its clock) carries the digest
\* and the length of the bytes on disk, and every other record carries the
\* digest, length and fully_read of the loaded record of its path, whatever
\* the size and the modification time of the file are now.
C22_DigestFromFullRead ==
  /\ \A r \in RecordsHeld :
       IF ThisRun(r.fully_read)
       THEN /\ r.rel_path \in Candidates
            /\ r.sha256_digest = Sha256(disk[r.rel_path].content)
            /\ r.len = LenOf(disk[r.rel_path].content)
       ELSE /\ r.rel_path \in Tracked
            /\ r.sha256_digest = Loaded[r.rel_path].sha256_digest
            /\ r.len = Loaded[r.rel_path].len
            /\ r.fully_read = Loaded[r.rel_path].fully_read
  /\ \A l \in LinesWritten :
       IF l.fully_read \in ReadingSeconds
       THEN /\ l.rel_path \in Candidates
            /\ l.sha256_hexdigest = Sha256(disk[l.rel_path].content)
       ELSE /\ l.rel_path \in Tracked
            /\ l.sha256_hexdigest = Loaded[l.rel_path].sha256_digest
            /\ l.fully_read * SubSec = Loaded[l.rel_path].fully_read

\* a written snapshot with a record carried over by metadata-skip, of a
\* file whose content is no longer the recorded one, and a record read in
\* this run of a file of the same size
C22_Witness ==
  /\ Written
  /\ \E l, k \in LinesWritten :
       /\ l.fully_read = PrevSecs
       /\ l.rel_path \in Skipped
       /\ l.sha256_hexdigest # Sha256(disk[l.rel_path].content)
       /\ k.fully_read \in ReadingSeconds
       /\ k.size = l.size
       /\ k.sha256_hexdigest # l.sha256_hexdigest

\* the results the hash task of path p has sent
TaskResultsAt(p) ==
  {i \in 1..Len(channel) :
     IF channel[i].ok
     THEN p = (IF channel[i].val.tag = "Modified" THEN channel[i].val.current.rel_path
               ELSE channel[i].val.fi.rel_path)
     ELSE channel[i].err = <<"read", p>>}

\* C23: the join barrier, without cancellation. The step that drains the
\* channel is taken only when no hash task is pending and every dispatched
\* task (every candidate that is not metadata-skipped and whose stat did not
\* fail) has sent exactly one result. A task leaves the pool only by sending
\* its result, and a pending task can always run, whatever failures the
\* channel holds already.
C23_JoinBarrier ==
  [][/\ (pc = "walk" /\ pc' # "walk") =>
          /\ tasks = <<>>
          /\ \A p \in Candidates :
               /\ Cardinality(TaskResultsAt(p)) <= 1
               /\ Cardinality(TaskResultsAt(p)) = 1 <=> (p \in Hashed /\ ~StatFailed(p))
     /\ Len(tasks') < Len(tasks) =>
          /\ Len(tasks') = Len(tasks) - 1
          /\ Len(channel') = Len(channel) + 1
          /\ \E j \in 1..Len(tasks) :
               /\ tasks' = [i \in 1..(Len(tasks) - 1) |-> IF i < j THEN tasks[i] ELSE tasks[i + 1]]
               /\ IF channel'[Len(channel')].ok
                  THEN SortKey(channel'[Len(channel')].val) = TaskPath(tasks[j])
                  ELSE channel'[Len(channel')].err = <<"read", TaskPath(tasks[j])>>
     /\ (pc = "walk" /\ tasks # <<>>) => ENABLED HashTask]_vars

\* the walk is over and every task has finished: a task has delivered its
\* outcome after the failure of another path was sent
C23_Witness ==
  /\ pc = "walk"
  /\ walker = Loop
  /\ Remaining = {}
  /\ tasks = <<>>
  /\ \E i, j \in 1..Len(channel) : i < j /\ ~channel[i].ok /\ channel[j].ok

\* the set of the lines of a file of the run
LineSet(name) == {LinesOf(name)[i] : i \in 1..Len(LinesOf(name))}

\* C24: content preservation across an update run. After a successful
\* update, for every record of the loaded snapshot either its digest is the
\* digest of a record of the new .state file, or the record itself is in
\* the run's .missing file, or it is in the run's .modified file as the
\* previous record of a Modified outcome: dedup never makes an archived
\* digest disappear from all three.
C24_ContentPreserved ==
  Written =>
    \A p \in Tracked :
      \/ \E l \in LineSet(StateName(RunSecond)) :
           l.sha256_hexdigest = Loaded[p].sha256_digest
      \/ write(Loaded[p]) \in LineSet(MissingName(RunSecond))
      \/ /\ write(Loaded[p]) \in LineSet(ModifiedName(RunSecond))
         /\ \E f \in DedupedWith({"Modified"}) : f.previous = Loaded[p]

\* a written run in which dedup dropped the Missing outcome of a path whose
\* content was found under the other path: the record is in no log and its
\* digest is in the new .state file
C24_Witness ==
  /\ Written
  /\ stats.files_duplicate_removed = 1
  /\ \E p \in Tracked \ Candidates : write(Loaded[p]) \notin LineSet(MissingName(RunSecond))
  /\ MissingName(RunSecond) \notin DOMAIN state_dir
  /\ Len(LinesOf(StateName(RunSecond))) = 1

\* the outcomes a hash task has produced: their record was read in this run
ReadInRun ==
  {i \in 1..Len(checked_files) :
     IF checked_files[i].tag = "Modified" THEN ThisRun(checked_files[i].current.fully_read)
     ELSE checked_files[i].tag # "Missing" /\ ThisRun(checked_files[i].fi.fully_read)}

\* C25: counter consistency. In a run without failures, for one and two
\* workers and every interleaving of the workers and the main thread, the
\* counters read after the join barrier satisfy files_checked = files_new +
\* files_modified + files_unchanged + files_not_found, and files_read is the
\* number of hash tasks that were dispatched: no update is lost.
C25_CountersConsistent ==
  Collected =>
    /\ stats.files_checked =
         stats.files_new + stats.files_modified + stats.files_unchanged + stats.files_not_found
    /\ stats.files_read = Cardinality(ReadInRun)
    /\ stats.files_read = Cardinality(Hashed)
    /\ stats.files_new = CountTag(checked_files, {"New"})
    /\ stats.files_modified = CountTag(checked_files, {"Modified"})
    /\ stats.files_unchanged = CountTag(checked_files, {"Unmodifed"})
    /\ stats.files_not_found = CountTag(checked_files, {"Missing"})

\* two workers have each finished a task, one of a new and one of a changed
\* file, and the counters were read after the barrier
C25_Witness ==
  /\ pc = "mode"
  /\ opts.threads = MaxThreads
  /\ stats.files_read = 2
  /\ stats.files_new = 1
  /\ stats.files_modified = 1
  /\ stats.files_checked = 2

\* the rule of the two flags passes the outcome list
Passes(ignore_missing, only_presence) ==
  verify(checked_files, ignore_missing, only_presence) = Success

\* C26: the verify rules are ordered by strictness on ignore-missing. For
\* every outcome list: when the strict rule (ignore-missing=false,
\* presence-only=false) passes, the three other rules pass; when the two-way
\* rule (false, true) passes, the presence rule (true, true) passes; so
\* setting ignore-missing never turns a pass into a failure. The verdict of
\* a finished verify run is the verdict of the rule its flags select.
C26_IgnoreMissingWeaker ==
  /\ Passes(FALSE, FALSE) => Passes(TRUE, FALSE) /\ Passes(FALSE, TRUE) /\ Passes(TRUE, TRUE)
  /\ Passes(FALSE, TRUE) => Passes(TRUE, TRUE)
  /\ \A only_presence \in BOOLEAN : Passes(FALSE, only_presence) => Passes(TRUE, only_presence)
  /\ (pc = "done" /\ opts.cmd = "Verify" /\ Collected) =>
       (result = Success <=> Passes(opts.ignore_missing, opts.only_presence))

\* a verify run with ignore-missing=false and presence-only=true has passed
\* a list that the strict rule fails: a missing file whose content was
\* found at a new path
C26_Witness ==
  /\ pc = "done"
  /\ opts.cmd = "Verify"
  /\ ~opts.ignore_missing
  /\ opts.only_presence
  /\ result = Success
  /\ CountTag(checked_files, {"Missing"}) = 1
  /\ CountTag(checked_files, {"New"}) = 1
  /\ ~Passes(FALSE, FALSE)
  /\ Passes(TRUE, TRUE)

\* the second run
Rerun == invocation.n = 2

\* C27: the digest, size and modification time of a record produced by a
\* hash task describe one version of the file, also when another process
\* writes the file while the task runs: when the next run metadata-skips a
\* file (its size and mtime equal the stored record's; while the run walks,
\* its outcome list holds the skipped files) whose record a hash task of
\* the first run produced, the stored digest is the digest of the content
\* the file has with that size and mtime.
C27_RecordDescribesOneVersion ==
  (Rerun /\ pc = "walk") =>
    \A i \in 1..Len(checked_files) :
      (/\ checked_files[i].tag = "Unmodifed"
       /\ SecondOf(checked_files[i].fi.fully_read) \in ReadingSeconds) =>
        /\ checked_files[i].fi.mtime = disk[checked_files[i].fi.rel_path].mtime
        /\ checked_files[i].fi.len = LenOf(disk[checked_files[i].fi.rel_path].content)
        /\ checked_files[i].fi.sha256_digest = Sha256(disk[checked_files[i].fi.rel_path].content)

\* path, digest, size and mtime of the lines of a snapshot file
Core(lines) ==
  {<<lines[i].rel_path, lines[i].sha256_hexdigest, lines[i].size, lines[i].mtime>> :
     i \in 1..Len(lines)}

\* no stat or read of the run has failed, and the system has a time zone
NoIoFailure ==
  /\ walker.at # "failed"
  /\ \A i \in 1..Len(channel) : channel[i].ok
  /\ ~(result.status = "err" /\ result.err[1] \in {"stat", "read"})
  /\ result # Panicked(<<"write_state", "timezone">>)

\* C28: update is stable across runs. After an update run that succeeded,
\* with the tree not changed afterwards, every step of the next update run
\* without the read-all flag (in which no stat fails) leads to a state in
\* which the run has loaded one record per file, has dispatched no hash
\* task, has classified the files Unchanged by metadata-skip and none New,
\* Modified or Missing, and its write succeeds with a snapshot of the same
\* paths, digests, sizes and mtimes as the snapshot the first run wrote
\* (before the write of the second run, `now` is the time the first run
\* named its files after).
C28_UpdateStable ==
  [][(Rerun /\ Rerun' /\ NoIoFailure') =>
       /\ result'.status # "panic"
       /\ (pc' = "walk" /\ walked' = 0) => DOMAIN old_states_by_filename' = Candidates
       /\ tasks' = <<>>
       /\ walker'.at # "needs_checking"
       /\ channel' = <<>>
       /\ stats'.files_read = 0
       /\ pc' \in {"mode", "done"} =>
            /\ Len(checked_files') = Cardinality(Candidates)
            /\ \A i \in 1..Len(checked_files') : checked_files'[i].tag = "Unmodifed"
            /\ stats'.files_unchanged = Cardinality(Candidates)
       /\ pc' = "done" =>
            /\ result' = Success
            /\ StateName(now') \in DOMAIN state_dir'
            /\ Core(state_dir'[StateName(now')].lines) = Core(state_dir[StateName(now)].lines)
            /\ {ModifiedName(now'), MissingName(now')} \cap DOMAIN state_dir' = {}]_vars
====
